---- MODULE Spec2Model ----
(***************************************************************************)
(* NeuroLab job orchestration: the recordings API (start_preprocess,       *)
(* extract_features, PATCH, cancel), the Celery queue with at-least-once   *)
(* delivery and revoke, and the preprocessing / feature-extraction         *)
(* workers, over the Recording and ProcessingJob rows of the metadata      *)
(* store.                                                                  *)
(*                                                                         *)
(* Conventions.  One recording is modelled; job ids are positions in the   *)
(* job table.  progress is stored in hundredths (0.85 is 85).  Timestamps  *)
(* hold Stamp once datetime.utcnow() was stored and NULL before.  log      *)
(* holds the last line appended to the job's log text.  The meta map is    *)
(* not part of the state.  temp_dirs counts the directories made by        *)
(* tempfile.mkdtemp that exist on the workers.                             *)
(* A worker commits after every block; Flask-SQLAlchemy expires the        *)
(* session on commit, so every block reads the committed row again and     *)
(* writes only the columns it assigns.  A request handler is one step.     *)
(***************************************************************************)
EXTENDS Integers, Sequences, FiniteSets, TLC

\* the Recording and ProcessingJob rows, the task queue and its workers
VARIABLES rec, jobs, queue, delivered, revoked, wk, resp, temp_dirs

\* the MLModel rows, the training queue and worker, the requests on models
VARIABLES models, model_seq, tqueue, tw, sess, mreq, mresp

\* one realtime stream: the ring-buffer key, the chunks sent and in work
VARIABLES sfreq, rbuf, rqueue, rt, sent, appended, events, got

\* one call of the feature extractor: the cleaned recording, the configured
\* bands, the epoching arguments and the table returned
VARIABLES raw, bands, epoching, features_df

\* one call of a service method or of a kernel function: the arguments with
\* what the collaborators will answer, and the frame of the call
VARIABLES call, ret

jobVars == <<rec, jobs, queue, delivered, revoked, wk, resp, temp_dirs>>

modelVars == <<models, model_seq, tqueue, tw, sess, mreq, mresp>>

rtVars == <<sfreq, rbuf, rqueue, rt, sent, appended, events, got>>

featVars == <<raw, bands, epoching, features_df>>

callVars == <<call, ret>>

vars == <<jobVars, modelVars, rtVars, featVars, callVars>>

\* ---------------------------------------------------------------- bounds
MaxJobs == 2
\* samples of the longest recording given to the feature extractor
MaxSamples == 10
\* overlap fractions are multiples of 1/OverlapSteps
OverlapSteps == 4
\* the highest frequency of the Welch grid, in Hz
MaxHz == 50
NumWorkers == 2
MaxDeliveries == 2
MaxRequests == 2
MaxModels == 2
NumClients == 2
MaxModelRequests == 2
NumRtWorkers == 2
MaxChunks == 3

\* ------------------------------------------------------------- constants
NULL == "NULL"

\* promotion_thresholds of PROCESSING_CONFIG, in hundredths
RocAucThreshold == 75

F1Threshold == 65

\* target_sfreq of PROCESSING_CONFIG
TargetSfreq == 250

\* the sample rate handle_stream_data takes when the message has none
DefaultSfreq == 250

\* realtime.buffer_seconds, notch_freqs[0] and bandpass.high of PROCESSING_CONFIG
BufferSeconds == 30

NotchFreq == 50

BandpassHigh == 40

\* the value of a timestamp column once datetime.utcnow() was stored in it
Stamp == "utcnow"

RecordingStatuses == {"uploaded", "processing", "processed", "failed", "needs_review"}

JobStatuses == {"pending", "running", "completed", "failed", "cancelled"}

Terminal == {"completed", "failed", "cancelled"}

Steps == {"preprocessing", "feature_extraction"}

\* the sample rates of the raw files uploaded
RawSfreqs == {TargetSfreq, 512}

\* len(raw.ch_names) of the raw file
RawChannels == 64

Workers == 1..NumWorkers

JobIds == 1..Len(jobs)

\* the blocks of preprocess_recording, each ending in a commit
PreBlocks == <<"claim", "download", "decode", "metadata", "resample", "notch", "bandpass",
               "bad_channels", "flag_review", "ica", "save", "visualizations", "done">>

\* the blocks of extract_features_task
FeatBlocks == <<"claim", "f_download", "f_load", "f_epochs", "f_connectivity",
                "f_save", "f_done">>

Blocks(task) == IF task = "preprocess" THEN PreBlocks ELSE FeatBlocks

IndexOf(seq, x) == CHOOSE i \in 1..Len(seq) : seq[i] = x

NextBlock(task, pc) == Blocks(task)[IndexOf(Blocks(task), pc) + 1]

\* PreProgress with the ICA checkpoint written below the one before it
PreProgressIcaLow(pc) ==
    CASE pc = "download"       -> 10
      [] pc = "decode"         -> 20
      [] pc = "resample"       -> 30
      [] pc = "notch"          -> 40
      [] pc = "bandpass"       -> 50
      [] pc = "bad_channels"   -> 60
      [] pc = "ica"            -> 55
      [] pc = "save"           -> 85
      [] pc = "visualizations" -> 90
      [] pc = "done"           -> 100

\* progress written by each checkpoint block, in hundredths
PreProgress(pc) ==
    CASE pc = "download"       -> 10
      [] pc = "decode"         -> 20
      [] pc = "resample"       -> 30
      [] pc = "notch"          -> 40
      [] pc = "bandpass"       -> 50
      [] pc = "bad_channels"   -> 60
      [] pc = "ica"            -> 70
      [] pc = "save"           -> 85
      [] pc = "visualizations" -> 90
      [] pc = "done"           -> 100

\* FeatProgress with the save checkpoint written below the one before it
FeatProgressSaveLow(pc) ==
    CASE pc = "f_download"     -> 20
      [] pc = "f_load"         -> 30
      [] pc = "f_epochs"       -> 50
      [] pc = "f_connectivity" -> 70
      [] pc = "f_save"         -> 65
      [] pc = "f_done"         -> 100

FeatProgress(pc) ==
    CASE pc = "f_download"     -> 20
      [] pc = "f_load"         -> 30
      [] pc = "f_epochs"       -> 50
      [] pc = "f_connectivity" -> 70
      [] pc = "f_save"         -> 85
      [] pc = "f_done"         -> 100

\* last log line appended by each block
LogLine(pc) ==
    CASE pc = "claim"          -> "Starting"
      [] pc = "download"       -> "Downloading raw file"
      [] pc = "decode"         -> "Reading raw file"
      [] pc = "resample"       -> "Resampling"
      [] pc = "notch"          -> "Applying notch filter"
      [] pc = "bandpass"       -> "Applying bandpass filter"
      [] pc = "bad_channels"   -> "Detecting bad channels"
      [] pc = "ica"            -> "Running ICA"
      [] pc = "save"           -> "Saving cleaned data"
      [] pc = "visualizations" -> "Generating visualizations"
      [] pc = "done"           -> "Preprocessing completed successfully"
      [] pc = "f_download"     -> "Downloading processed file"
      [] pc = "f_load"         -> "Loading cleaned data"
      [] pc = "f_epochs"       -> "Extracting features"
      [] pc = "f_connectivity" -> "Computing connectivity features"
      [] pc = "f_save"         -> "Saving features"
      [] pc = "f_done"         -> "Feature extraction completed successfully"

CleanedPath == "processed/cleaned_raw.fif"

FeaturesPath == "features/features.parquet"

\* ---------------------------------------------------------------- rows
\* NULL in an integer column
NullInt == 0

\* raw_sfreq is the sample rate of the file at s3_path, not a column
NewRecording(raw_sfreq) ==
    [status |-> "uploaded", processed_path |-> NULL, features_path |-> NULL,
     sfreq |-> NullInt, channels |-> NullInt, raw_sfreq |-> raw_sfreq]

NewJob(step, task_id) ==
    [step |-> step, status |-> "pending", progress |-> 0, log |-> NULL,
     error |-> NULL, celery_task_id |-> task_id, started_at |-> NULL, finished_at |-> NULL]

\* bad_pct_high: the outcome of the max_bad_channels_pct test of the run
Idle ==
    [pc |-> "idle", task |-> NULL, job |-> 0, task_id |-> 0, written |-> -1,
     bad_pct_high |-> FALSE]

NoResponse == [seq |-> 0, op |-> NULL, id |-> 0, code |-> 0, progress |-> 0]

\* the answer to the seq-th request of the run
\* and, for a request on a job, the progress of the job row it was served on
Response(op, id, code) ==
    [seq |-> resp.seq + 1, op |-> op, id |-> id, code |-> code,
     progress |-> IF op = "cancel_job" THEN jobs[id].progress ELSE 0]

InitJobs(raw_sfreq) ==
    /\ rec = NewRecording(raw_sfreq)
    /\ jobs = <<>>
    /\ queue = {}
    /\ delivered = 0
    /\ revoked = {}
    /\ wk = [w \in Workers |-> Idle]
    /\ resp = NoResponse
    /\ temp_dirs = 0

\* ----------------------------------------------------------- API layer
CanStartPreprocessing(status) == status \in {"uploaded", "failed", "needs_review"}

CanExtractFeatures(status) == status = "processed"

\* Cancellable without the test that refuses a finished job
CancellableWhenFinished(status) == status # "cancelled"

Cancellable(status) == status \in {"pending", "running"}

\* the job row is added and its task enqueued; the task id is the job id
CreateJob(step) ==
    /\ jobs' = Append(jobs, NewJob(step, Len(jobs) + 1))
    /\ queue' = queue \cup {Len(jobs) + 1}

StartPreprocessing ==
    /\ resp.seq < MaxRequests
    /\ Len(jobs) < MaxJobs
    /\ IF CanStartPreprocessing(rec.status)
       THEN /\ CreateJob("preprocessing")
            /\ rec' = [rec EXCEPT !.status = "processing"]
            /\ resp' = Response("start_preprocess", Len(jobs) + 1, 202)
       ELSE /\ resp' = Response("start_preprocess", 0, 400)
            /\ UNCHANGED <<rec, jobs, queue>>
    /\ UNCHANGED <<delivered, revoked, wk>>
    /\ UNCHANGED temp_dirs
    /\ UNCHANGED <<modelVars, rtVars, featVars, callVars>>

ExtractFeatures ==
    /\ resp.seq < MaxRequests
    /\ Len(jobs) < MaxJobs
    /\ IF CanExtractFeatures(rec.status)
       THEN /\ CreateJob("feature_extraction")
            /\ resp' = Response("extract_features", Len(jobs) + 1, 202)
       ELSE /\ resp' = Response("extract_features", 0, 400)
            /\ UNCHANGED <<jobs, queue>>
    /\ UNCHANGED <<rec, delivered, revoked, wk>>
    /\ UNCHANGED temp_dirs
    /\ UNCHANGED <<modelVars, rtVars, featVars, callVars>>

UpdateRecording(status) ==
    /\ resp.seq < MaxRequests
    /\ rec' = [rec EXCEPT !.status = status]
    /\ resp' = Response("update_recording", 0, 200)
    /\ UNCHANGED <<jobs, queue, delivered, revoked, wk>>
    /\ UNCHANGED temp_dirs
    /\ UNCHANGED <<modelVars, rtVars, featVars, callVars>>

CancelJob(j) ==
    /\ resp.seq < MaxRequests
    /\ j \in JobIds
    /\ IF Cancellable(jobs[j].status)
       THEN /\ revoked' = IF jobs[j].celery_task_id # 0
                          THEN revoked \cup {jobs[j].celery_task_id}
                          ELSE revoked
            /\ jobs' = [jobs EXCEPT ![j].status = "cancelled",
                                    ![j].finished_at = Stamp]
            /\ resp' = Response("cancel_job", j, 200)
       ELSE /\ resp' = Response("cancel_job", j, 400)
            /\ UNCHANGED <<jobs, revoked>>
    /\ UNCHANGED <<rec, queue, delivered, wk>>
    /\ UNCHANGED temp_dirs
    /\ UNCHANGED <<modelVars, rtVars, featVars, callVars>>

\* the row of the recording does not exist: query.get returns None
NoRecording ==
    [status |-> NULL, processed_path |-> NULL, features_path |-> NULL,
     sfreq |-> NullInt, channels |-> NullInt, raw_sfreq |-> NullInt]

\* DELETE /recordings/<id>: the row is deleted and, by the cascade of
\* Recording.processing_jobs, the job rows of the recording with it; the
\* messages in the queue and the runs in progress are not touched
DeleteRecording ==
    /\ resp.seq < MaxRequests
    /\ rec # NoRecording
    /\ rec' = NoRecording
    /\ jobs' = <<>>
    /\ resp' = Response("delete_recording", 0, 200)
    /\ UNCHANGED <<queue, delivered, revoked, wk>>
    /\ UNCHANGED temp_dirs
    /\ UNCHANGED <<modelVars, rtVars, featVars, callVars>>

\* --------------------------------------------------------------- queue
\* the workers are interchangeable: a task goes to the first idle one (0: none)
FirstIdle ==
    IF \E w \in Workers : wk[w].pc = "idle"
    THEN CHOOSE w \in Workers : wk[w].pc = "idle" /\ \A v \in 1..(w - 1) : wk[v].pc # "idle"
    ELSE 0

StartRun(w, task, j, task_id) ==
    wk' = [wk EXCEPT ![w] = [pc |-> "claim", task |-> task, job |-> j,
                             task_id |-> task_id, written |-> -1,
                             bad_pct_high |-> FALSE]]

TaskOf(step) == IF step = "preprocessing" THEN "preprocess" ELSE "features"

\* a worker takes the message of task j; the broker may deliver it again
Deliver(w, j, again) ==
    /\ w = FirstIdle
    /\ j \in queue
    /\ j \notin revoked
    /\ delivered < MaxDeliveries
    /\ delivered' = delivered + 1
    /\ queue' = IF again THEN queue ELSE queue \ {j}
    /\ StartRun(w, TaskOf(jobs[j].step), j, j)
    /\ UNCHANGED <<rec, jobs, revoked, resp>>
    /\ UNCHANGED temp_dirs
    /\ UNCHANGED <<modelVars, rtVars, featVars, callVars>>

\* a worker drops the message of a revoked task without running it
Discard(w, j) ==
    /\ w = FirstIdle
    /\ j \in queue
    /\ j \in revoked
    /\ queue' = queue \ {j}
    /\ UNCHANGED <<rec, jobs, delivered, revoked, wk, resp>>
    /\ UNCHANGED temp_dirs
    /\ UNCHANGED <<modelVars, rtVars, featVars, callVars>>

\* revoke(terminate=True) reaches the worker that executes the task
Terminate(w) ==
    /\ wk[w].pc # "idle"
    /\ wk[w].task_id \in revoked
    /\ wk' = [wk EXCEPT ![w] = Idle]
    /\ UNCHANGED <<rec, jobs, queue, delivered, revoked, resp>>
    /\ UNCHANGED temp_dirs
    /\ UNCHANGED <<modelVars, rtVars, featVars, callVars>>

\* preprocess_batch adds a job row and calls preprocess_recording in line
PreprocessBatch(w) ==
    /\ w = FirstIdle
    /\ Len(jobs) < MaxJobs
    /\ delivered < MaxDeliveries
    /\ delivered' = delivered + 1
    /\ jobs' = Append(jobs, NewJob("preprocessing", 0))
    /\ StartRun(w, "preprocess", Len(jobs) + 1, 0)
    /\ UNCHANGED <<rec, queue, revoked, resp>>
    /\ UNCHANGED temp_dirs
    /\ UNCHANGED <<modelVars, rtVars, featVars, callVars>>

\* ------------------------------------------------------------- workers
\* the task starts: the job row is set to running whatever its status is
Claim(w) ==
    /\ wk[w].pc = "claim"
    /\ jobs' = [jobs EXCEPT ![wk[w].job].status = "running",
                            ![wk[w].job].started_at = Stamp,
                            ![wk[w].job].log = LogLine("claim")]
    /\ wk' = [wk EXCEPT ![w].pc = NextBlock(wk[w].task, "claim")]
    /\ UNCHANGED <<rec, queue, delivered, revoked, resp>>
    /\ UNCHANGED temp_dirs
    /\ UNCHANGED <<modelVars, rtVars, featVars, callVars>>

WriteProgress(w, p) ==
    LET j == wk[w].job IN
    /\ jobs' = [jobs EXCEPT ![j].progress = p, ![j].log = LogLine(wk[w].pc)]
    /\ wk' = [wk EXCEPT ![w].pc = NextBlock(wk[w].task, wk[w].pc), ![w].written = p]

\* a checkpoint of preprocess_recording: log line, progress, commit
Checkpoint(w) ==
    /\ wk[w].task = "preprocess"
    /\ wk[w].pc \in {"download", "decode", "resample", "notch", "bandpass",
                     "bad_channels", "ica", "save"}
    /\ WriteProgress(w, PreProgress(wk[w].pc))
    /\ UNCHANGED <<rec, queue, delivered, revoked, resp>>
    /\ temp_dirs' = IF wk[w].pc = "download" THEN temp_dirs + 1 ELSE temp_dirs
    /\ UNCHANGED <<modelVars, rtVars, featVars, callVars>>

\* read_raw has decoded the file: sfreq and channels are stored
StoreMetadata(w) ==
    /\ wk[w].task = "preprocess"
    /\ wk[w].pc = "metadata"
    /\ rec' = [rec EXCEPT !.sfreq = rec.raw_sfreq, !.channels = RawChannels]
    /\ wk' = [wk EXCEPT ![w].pc = NextBlock("preprocess", "metadata")]
    /\ UNCHANGED <<jobs, queue, delivered, revoked, resp>>
    /\ UNCHANGED temp_dirs
    /\ UNCHANGED <<modelVars, rtVars, featVars, callVars>>

\* raw.info['sfreq'] after pipeline.resample
Resampled(raw_sfreq) == IF raw_sfreq # TargetSfreq THEN TargetSfreq ELSE raw_sfreq

\* detect_bad_channels and the max_bad_channels_pct test
FlagReview(w, too_many_bad) ==
    /\ wk[w].task = "preprocess"
    /\ wk[w].pc = "flag_review"
    /\ IF too_many_bad
       THEN /\ rec' = [rec EXCEPT !.status = "needs_review"]
            /\ jobs' = [jobs EXCEPT ![wk[w].job].log = "WARNING: needs manual review"]
       ELSE UNCHANGED <<rec, jobs>>
    /\ wk' = [wk EXCEPT ![w].pc = NextBlock("preprocess", "flag_review"),
                         ![w].bad_pct_high = too_many_bad]
    /\ UNCHANGED <<queue, delivered, revoked, resp>>
    /\ UNCHANGED temp_dirs
    /\ UNCHANGED <<modelVars, rtVars, featVars, callVars>>

\* the cleaned file is saved and uploaded, processed_path is set
UploadCleaned(w) ==
    /\ wk[w].task = "preprocess"
    /\ wk[w].pc = "visualizations"
    /\ rec' = [rec EXCEPT !.processed_path = CleanedPath]
    /\ WriteProgress(w, PreProgress("visualizations"))
    /\ UNCHANGED <<queue, delivered, revoked, resp>>
    /\ UNCHANGED temp_dirs
    /\ UNCHANGED <<modelVars, rtVars, featVars, callVars>>

FinalStatus(status) == IF status # "needs_review" THEN "processed" ELSE "needs_review"

CompleteJob(w, p) ==
    LET j == wk[w].job IN
    /\ jobs' = [jobs EXCEPT ![j].status = "completed", ![j].progress = p,
                            ![j].finished_at = Stamp,
                            ![j].log = LogLine(wk[w].pc)]
    /\ wk' = [wk EXCEPT ![w] = Idle]

Finish(w) ==
    /\ wk[w].task = "preprocess"
    /\ wk[w].pc = "done"
    /\ rec' = [rec EXCEPT !.status = FinalStatus(rec.status),
                           !.sfreq = Resampled(rec.raw_sfreq)]
    /\ CompleteJob(w, PreProgress("done"))
    /\ UNCHANGED <<queue, delivered, revoked, resp>>
    /\ temp_dirs' = temp_dirs - 1
    /\ UNCHANGED <<modelVars, rtVars, featVars, callVars>>

FailJob(w) ==
    LET j == wk[w].job IN
    /\ jobs' = [jobs EXCEPT ![j].status = "failed", ![j].error = "exception",
                            ![j].finished_at = Stamp, ![j].log = "ERROR"]
    /\ wk' = [wk EXCEPT ![w] = Idle]

\* tempfile.mkdtemp raises between the commit of the claim and the try
\* block of either task: the task ends and the rows stay as the claim left
\* them
TempDirFails(w) ==
    /\ wk[w].pc \in {"download", "f_download"}
    /\ wk' = [wk EXCEPT ![w] = Idle]
    /\ UNCHANGED <<rec, jobs, queue, delivered, revoked, resp>>
    /\ UNCHANGED temp_dirs
    /\ UNCHANGED <<modelVars, rtVars, featVars, callVars>>

\* the rows of a run were deleted: a run that has not loaded them returns
\* at once, and the next commit of any other run raises, as does the commit
\* of its except block; the finally block removes the temp directory
RowsGone(w) ==
    /\ rec = NoRecording
    /\ wk[w].pc # "idle"
    /\ wk' = [wk EXCEPT ![w] = Idle]
    /\ temp_dirs' = IF w \in {v \in Workers : wk[v].pc \notin {"claim", "download", "f_download"}}
                    THEN temp_dirs - 1 ELSE temp_dirs
    /\ UNCHANGED <<rec, jobs, queue, delivered, revoked, resp>>
    /\ UNCHANGED <<modelVars, rtVars, featVars, callVars>>

\* an exception in the try block of preprocess_recording
Fail(w) ==
    /\ wk[w].task = "preprocess"
    /\ wk[w].pc \notin {"idle", "claim", "download"}
    /\ FailJob(w)
    /\ rec' = [rec EXCEPT !.status = "failed"]
    /\ UNCHANGED <<queue, delivered, revoked, resp>>
    /\ temp_dirs' = temp_dirs - 1
    /\ UNCHANGED <<modelVars, rtVars, featVars, callVars>>

\* CanDownloadCleaned if a NULL path did not raise
CanDownloadAnyPath(path) == TRUE

\* recording.processed_path.replace(...) raises on a NULL path
CanDownloadCleaned(path) == path # NULL

FeatCheckpoint(w) ==
    /\ wk[w].task = "features"
    /\ wk[w].pc \in {"f_download", "f_load", "f_epochs", "f_connectivity", "f_save"}
    /\ wk[w].pc = "f_load" => CanDownloadCleaned(rec.processed_path)
    /\ WriteProgress(w, FeatProgress(wk[w].pc))
    /\ UNCHANGED <<rec, queue, delivered, revoked, resp>>
    /\ temp_dirs' = IF wk[w].pc = "f_download" THEN temp_dirs + 1 ELSE temp_dirs
    /\ UNCHANGED <<modelVars, rtVars, featVars, callVars>>

FeatFinish(w) ==
    /\ wk[w].task = "features"
    /\ wk[w].pc = "f_done"
    /\ rec' = [rec EXCEPT !.features_path = FeaturesPath]
    /\ CompleteJob(w, FeatProgress("f_done"))
    /\ UNCHANGED <<queue, delivered, revoked, resp>>
    /\ temp_dirs' = temp_dirs - 1
    /\ UNCHANGED <<modelVars, rtVars, featVars, callVars>>

\* FeatFail if the handler of extract_features_task marked the recording
FeatFailMarksRecording(w) ==
    /\ wk[w].task = "features"
    /\ wk[w].pc \notin {"idle", "claim", "f_download"}
    /\ FailJob(w)
    /\ rec' = [rec EXCEPT !.status = "failed"]
    /\ UNCHANGED <<queue, delivered, revoked, resp>>
    /\ temp_dirs' = temp_dirs - 1
    /\ UNCHANGED <<modelVars, rtVars, featVars, callVars>>

\* an exception in the try block of extract_features_task
FeatFail(w) ==
    /\ wk[w].task = "features"
    /\ wk[w].pc \notin {"idle", "claim", "f_download"}
    /\ FailJob(w)
    /\ UNCHANGED <<rec, queue, delivered, revoked, resp>>
    /\ temp_dirs' = temp_dirs - 1
    /\ UNCHANGED <<modelVars, rtVars, featVars, callVars>>

\* -------------------------------------------------------------- models
\* Model ids are issued in order and never used again; models maps the ids
\* of the rows that exist to the rows.  Scores are stored in hundredths
\* (0.75 is 75).  A request on a model reads the rows in one step and
\* commits in a later one, as a training run does; SQLAlchemy puts in its
\* UPDATE the columns whose value differs from the value it loaded.
ModelStages == {"development", "candidate", "production"}

RocAucScores == {70, RocAucThreshold}

F1Scores == {60, F1Threshold}

Clients == 1..NumClients

IssuedIds == 1..model_seq

NoMetrics == {}

Metrics(roc_auc, f1) == {<<"roc_auc", roc_auc>>, <<"f1", f1>>}

\* dict.get(key, default)
Get(metrics, key, default) ==
    IF \E p \in metrics : p[1] = key
    THEN (CHOOSE p \in metrics : p[1] = key)[2]
    ELSE default

ModelPath == "models/model.joblib"

NewModel == [stage |-> "development", metrics |-> NoMetrics, s3_path |-> NULL]

NoRequest == [pc |-> "idle", model |-> 0, new_stage |-> NULL, loaded |-> NULL, demote |-> 0]

TrainIdle == [pc |-> "idle", model |-> 0, loaded |-> NULL]

NoModelResponse == [op |-> NULL, model |-> 0, stage |-> NULL, code |-> 0]

ModelResponse(op, m, stage, code) == [op |-> op, model |-> m, stage |-> stage, code |-> code]

InitModels ==
    /\ models = [m \in {} |-> NewModel]
    /\ model_seq = 0
    /\ tqueue = {}
    /\ tw = TrainIdle
    /\ sess = [c \in Clients |-> NoRequest]
    /\ mreq = 0
    /\ mresp = NoModelResponse

FirstIdleClient ==
    IF \E c \in Clients : sess[c].pc = "idle"
    THEN CHOOSE c \in Clients : sess[c].pc = "idle" /\ \A d \in 1..(c - 1) : sess[d].pc # "idle"
    ELSE 0

\* the fewest recording ids train_model accepts
MinRecordings == 2

\* how many recording ids a request lists, and how many recordings other
\* than the one modelled have features when it arrives
IdCounts == 0..MinRecordings

OtherRecordings == {0, MinRecordings}

\* the recordings that have features, as train_model counts them
RecordingsWithFeatures(others) == others + (IF rec.features_path # NULL THEN 1 ELSE 0)

\* POST /models/train with n_ids recording ids in the body; an empty list
\* stands for all recordings that have features
TrainModel(n_ids, others) ==
    /\ model_seq < MaxModels
    /\ LET ids == IF n_ids = 0 THEN RecordingsWithFeatures(others) ELSE n_ids
           m == model_seq + 1
       IN IF ids < MinRecordings
          THEN /\ mresp' = ModelResponse("train_model", 0, NULL, 400)
               /\ UNCHANGED <<models, model_seq, tqueue>>
          ELSE /\ models' = [i \in DOMAIN models \cup {m} |->
                                IF i = m THEN NewModel ELSE models[i]]
               /\ model_seq' = m
               /\ tqueue' = tqueue \cup {m}
               /\ mresp' = ModelResponse("train_model", m, NULL, 202)
    /\ UNCHANGED <<tw, sess, mreq>>
    /\ UNCHANGED <<jobVars, rtVars, featVars, callVars>>

\* train_model_task starts, loads the model row and the feature tables of
\* the recordings listed, of which contributing exist and have features;
\* with none it raises and its except block stores the failed stage, and
\* otherwise it goes on to the split and the fit.  The broker may deliver
\* the message again
TrainStart(m, again, contributing) ==
    /\ tw.pc = "idle"
    /\ m \in tqueue
    /\ tqueue' = IF again THEN tqueue ELSE tqueue \ {m}
    /\ IF m \notin DOMAIN models
       THEN tw' = TrainIdle /\ UNCHANGED models
       ELSE IF contributing = 0
       THEN /\ tw' = TrainIdle
            /\ models' = IF models[m].stage # "failed"
                         THEN [models EXCEPT ![m].stage = "failed"]
                         ELSE models
       ELSE /\ tw' = [pc |-> "fit", model |-> m, loaded |-> models[m].stage]
            /\ UNCHANGED models
    /\ UNCHANGED <<model_seq, sess, mreq, mresp>>
    /\ UNCHANGED <<jobVars, rtVars, featVars, callVars>>

\* PassesThresholds with a roc_auc that has to exceed its threshold
PassesThresholdsStrictly(roc_auc, f1) == roc_auc > RocAucThreshold /\ f1 >= F1Threshold

\* the promotion test of train_model_task
PassesThresholds(roc_auc, f1) == roc_auc >= RocAucThreshold /\ f1 >= F1Threshold

\* the stage column after the commit of a finished training run
StageAfterTraining(loaded, stored, roc_auc, f1) ==
    IF PassesThresholds(roc_auc, f1) /\ loaded # "candidate" THEN "candidate" ELSE stored

\* the run ends well: metrics, artifact path and stage are committed
TrainComplete(roc_auc, f1) ==
    /\ tw.pc = "fit"
    /\ IF tw.model \in DOMAIN models
       THEN models' = [models EXCEPT ![tw.model] =
                [stage |-> StageAfterTraining(tw.loaded, @.stage, roc_auc, f1),
                 metrics |-> Metrics(roc_auc, f1),
                 s3_path |-> ModelPath]]
       ELSE UNCHANGED models
    /\ tw' = TrainIdle
    /\ UNCHANGED <<model_seq, tqueue, sess, mreq, mresp>>
    /\ UNCHANGED <<jobVars, rtVars, featVars, callVars>>

\* an exception in the try block of train_model_task
TrainFail ==
    /\ tw.pc = "fit"
    /\ IF tw.model \in DOMAIN models /\ tw.loaded # "failed"
       THEN models' = [models EXCEPT ![tw.model].stage = "failed"]
       ELSE UNCHANGED models
    /\ tw' = TrainIdle
    /\ UNCHANGED <<model_seq, tqueue, sess, mreq, mresp>>
    /\ UNCHANGED <<jobVars, rtVars, featVars, callVars>>

PromoteStages == {"candidate", "production"}

\* BelowThreshold if promote_model did not test f1
BelowRocAucOnly(metrics) == Get(metrics, "roc_auc", 0) < RocAucThreshold

\* the two tests of promote_model that answer 400
BelowThreshold(metrics) ==
    \/ Get(metrics, "roc_auc", 0) < RocAucThreshold
    \/ Get(metrics, "f1", 0) < F1Threshold

ProductionModels == {m \in DOMAIN models : models[m].stage = "production"}

\* what MLModel.query.filter_by(stage='production').first() may return
CurrentProd == IF ProductionModels = {} THEN {0} ELSE ProductionModels

\* POST /models/<m>/promote up to its commit: the rows are read, the
\* thresholds tested and the stages assigned in the session
PromoteModel(c, m, new_stage, current_prod) ==
    /\ c = FirstIdleClient
    /\ m \in IssuedIds
    /\ mreq < MaxModelRequests
    /\ mreq' = mreq + 1
    /\ current_prod \in CurrentProd
    /\ IF m \notin DOMAIN models
       THEN /\ mresp' = ModelResponse("promote_model", m, new_stage, 404)
            /\ UNCHANGED sess
       ELSE IF new_stage \notin PromoteStages
       THEN /\ mresp' = ModelResponse("promote_model", m, new_stage, 400)
            /\ UNCHANGED sess
       ELSE IF new_stage = "production" /\ BelowThreshold(models[m].metrics)
       THEN /\ mresp' = ModelResponse("promote_model", m, new_stage, 400)
            /\ UNCHANGED sess
       ELSE /\ sess' = [sess EXCEPT ![c] =
                [pc |-> "promote_commit", model |-> m, new_stage |-> new_stage,
                 loaded |-> models[m].stage,
                 demote |-> IF new_stage = "production" /\ current_prod # m
                            THEN current_prod ELSE 0]]
            /\ UNCHANGED mresp
    /\ UNCHANGED <<models, model_seq, tqueue, tw>>
    /\ UNCHANGED <<jobVars, rtVars, featVars, callVars>>

\* the UPDATE of a row that was deleted meanwhile fails the whole commit
StaleCommit(r) ==
    \/ r.loaded # r.new_stage /\ r.model \notin DOMAIN models
    \/ r.demote # 0 /\ r.demote \notin DOMAIN models

\* the commit of promote_model: both stage changes in one transaction
PromoteCommit(c) ==
    /\ sess[c].pc = "promote_commit"
    /\ LET r == sess[c] IN
       IF StaleCommit(r)
       THEN /\ mresp' = ModelResponse("promote_model", r.model, r.new_stage, 500)
            /\ UNCHANGED models
       ELSE /\ models' = [m \in DOMAIN models |->
                    IF m = r.model /\ r.loaded # r.new_stage
                    THEN [models[m] EXCEPT !.stage = r.new_stage]
                    ELSE IF m = r.demote
                    THEN [models[m] EXCEPT !.stage = "candidate"]
                    ELSE models[m]]
            /\ mresp' = ModelResponse("promote_model", r.model, r.new_stage, 200)
    /\ sess' = [sess EXCEPT ![c] = NoRequest]
    /\ UNCHANGED <<model_seq, tqueue, tw, mreq>>
    /\ UNCHANGED <<jobVars, rtVars, featVars, callVars>>

\* DeleteModel without the test that refuses a production model
DeleteModelAnyStage(c, m) ==
    /\ c = FirstIdleClient
    /\ m \in IssuedIds
    /\ mreq < MaxModelRequests
    /\ mreq' = mreq + 1
    /\ IF m \notin DOMAIN models
       THEN /\ mresp' = ModelResponse("delete_model", m, NULL, 404)
            /\ UNCHANGED sess
       ELSE /\ sess' = [sess EXCEPT ![c] = [NoRequest EXCEPT !.pc = "delete_commit", !.model = m]]
            /\ UNCHANGED mresp
    /\ UNCHANGED <<models, model_seq, tqueue, tw>>
    /\ UNCHANGED <<jobVars, rtVars, featVars, callVars>>

\* DELETE /models/<m> up to its commit
DeleteModel(c, m) ==
    /\ c = FirstIdleClient
    /\ m \in IssuedIds
    /\ mreq < MaxModelRequests
    /\ mreq' = mreq + 1
    /\ IF m \notin DOMAIN models
       THEN /\ mresp' = ModelResponse("delete_model", m, NULL, 404)
            /\ UNCHANGED sess
       ELSE IF models[m].stage = "production"
       THEN /\ mresp' = ModelResponse("delete_model", m, NULL, 400)
            /\ UNCHANGED sess
       ELSE /\ sess' = [sess EXCEPT ![c] = [NoRequest EXCEPT !.pc = "delete_commit", !.model = m]]
            /\ UNCHANGED mresp
    /\ UNCHANGED <<models, model_seq, tqueue, tw>>
    /\ UNCHANGED <<jobVars, rtVars, featVars, callVars>>

\* the commit of delete_model
DeleteCommit(c) ==
    /\ sess[c].pc = "delete_commit"
    /\ models' = [m \in DOMAIN models \ {sess[c].model} |-> models[m]]
    /\ mresp' = ModelResponse("delete_model", sess[c].model, NULL, 200)
    /\ sess' = [sess EXCEPT ![c] = NoRequest]
    /\ UNCHANGED <<model_seq, tqueue, tw, mreq>>
    /\ UNCHANGED <<jobVars, rtVars, featVars, callVars>>

TrainingNext ==
    \/ \E n \in IdCounts, others \in OtherRecordings : TrainModel(n, others)
    \/ \E m \in IssuedIds, again \in BOOLEAN, k \in IdCounts : TrainStart(m, again, k)
    \/ \E roc_auc \in RocAucScores, f1 \in F1Scores : TrainComplete(roc_auc, f1)
    \/ TrainFail

ModelNext ==
    \/ TrainingNext
    \/ \E c \in Clients, m \in IssuedIds, s \in PromoteStages \cup {"development"},
          p \in CurrentProd : PromoteModel(c, m, s, p)
    \/ \E c \in Clients : PromoteCommit(c)
    \/ \E c \in Clients, m \in IssuedIds : DeleteModel(c, m)
    \/ \E c \in Clients : DeleteCommit(c)

\* ------------------------------------------------------------ realtime
\* One stream of one recording.  The samples a client sends are numbered
\* 1, 2, ... in the order sent, and an array is kept as the runs of sample
\* numbers on its time axis (all channels alike), so that lengths of
\* thousands of samples stay small values.  A run is garbled when its
\* elements are the float64 reading of words that were written as int64.
\* All chunks of the stream have the same channel count.
SampleRates == {64, DefaultSfreq}

ChunkSeconds == {1, 29, 31}

Dtypes == {"float64", "int64"}

\* duration_sec=None
NoDuration == -1

\* durations asked of get_data, in milliseconds
DurationsMs == {0, 1, 2000, 40000}

RtWorkers == 1..NumRtWorkers

Room(recording_id) == <<"recording_", recording_id>>

RecordingId == "rec"

NoKey == [dtype |-> NULL, runs |-> <<>>]

RunLength(r) == r.hi - r.lo + 1

RECURSIVE Length(_)
\* shape[1] of an array
Length(runs) == IF runs = <<>> THEN 0 ELSE RunLength(Head(runs)) + Length(Tail(runs))

\* np.concatenate(..., axis=1) of two arrays
Concatenate(a, b) ==
    IF a = <<>> THEN b
    ELSE IF b = <<>> THEN a
    ELSE LET x == a[Len(a)]
             y == b[1]
         IN IF x.hi + 1 = y.lo /\ x.garbled = y.garbled
            THEN SubSeq(a, 1, Len(a) - 1) \o <<[x EXCEPT !.hi = y.hi]>> \o Tail(b)
            ELSE a \o b

RECURSIVE Trailing(_, _)
\* the last n samples of an array, all of it if it has fewer
Trailing(runs, n) ==
    IF n <= 0 \/ runs = <<>> THEN <<>>
    ELSE LET r == runs[Len(runs)] IN
         IF RunLength(r) >= n
         THEN <<[r EXCEPT !.lo = r.hi - n + 1]>>
         ELSE Trailing(SubSeq(runs, 1, Len(runs) - 1), n - RunLength(r)) \o <<r>>

\* the slice a[:, -n:] for n >= 0: -0 is 0, so n = 0 takes the whole array
Slice(runs, n) == IF n = 0 THEN runs ELSE Trailing(runs, n)

\* np.array(chunk_data): a chunk of whole numbers becomes an int64 array
Chunk(dtype, lo, hi) == [dtype |-> dtype, runs |-> <<[lo |-> lo, hi |-> hi, garbled |-> FALSE]>>]

\* ndarray.tobytes(): eight bytes an element, in the encoding of the dtype
ToBytes(array) == [dtype |-> array.dtype, runs |-> array.runs]

Garble(runs) == [i \in 1..Len(runs) |-> [runs[i] EXCEPT !.garbled = TRUE]]

\* np.frombuffer(bytes, dtype=np.float64): the words are read as float64
\* whatever wrote them
FromBuffer(bytes) ==
    [dtype |-> "float64",
     runs |-> IF bytes.dtype = "float64" THEN bytes.runs ELSE Garble(bytes.runs)]

\* RealtimeBuffer.buffer_size
BufferSize(rate) == rate * BufferSeconds

\* what append stores for the buffer it read and the chunk it was given
Combined(bytes, data, buffer_size) ==
    IF bytes # NoKey
    THEN LET combined == Concatenate(FromBuffer(bytes).runs, data.runs) IN
         [dtype |-> "float64",
          runs |-> IF Length(combined) > buffer_size THEN Slice(combined, buffer_size)
                   ELSE combined]
    ELSE [dtype |-> data.dtype,
          runs |-> IF Length(data.runs) > buffer_size THEN Slice(data.runs, buffer_size)
                   ELSE data.runs]

\* int(duration_sec * sfreq), the duration given in milliseconds
NSamples(ms, rate) == (ms * rate) \div 1000

\* RealtimeBuffer.get_data on the stored bytes; NoKey stands for None
GetDataOf(bytes, ms, rate) ==
    IF bytes = NoKey THEN NoKey
    ELSE IF ms # NoDuration THEN [dtype |-> "float64", runs |-> Slice(FromBuffer(bytes).runs, NSamples(ms, rate))]
    ELSE FromBuffer(bytes)

\* Buffering with a threshold of one second
BufferingOneSecond(buffer_data, rate) == buffer_data = NoKey \/ Length(buffer_data.runs) < rate

\* the test of process_realtime_chunk that answers buffering
Buffering(buffer_data, rate) == buffer_data = NoKey \/ Length(buffer_data.runs) < rate * 2

\* iirnotch and butter accept the sample rate: the notch and the band edge
\* lie below half of it
CanFilter(rate) == 2 * NotchFreq <= rate /\ 2 * BandpassHigh < rate

RtIdle == [pc |-> "idle", chunk |-> NoKey, combined |-> NoKey, status |-> NULL]

NotRead == [ms |-> NoDuration, result |-> NoKey]

InitStream(rate) ==
    /\ sfreq = rate
    /\ rbuf = NoKey
    /\ rqueue = <<>>
    /\ rt = [w \in RtWorkers |-> RtIdle]
    /\ sent = [chunks |-> 0, samples |-> 0]
    /\ appended = <<>>
    /\ events = <<>>
    /\ got = NotRead

\* handle_stream_data: the chunk goes to the realtime queue
StreamData(seconds, dtype) ==
    /\ sent.chunks < MaxChunks
    /\ LET n == seconds * sfreq IN
       /\ rqueue' = Append(rqueue, Chunk(dtype, sent.samples + 1, sent.samples + n))
       /\ sent' = [chunks |-> sent.chunks + 1, samples |-> sent.samples + n]
    /\ UNCHANGED <<sfreq, rbuf, rt, appended, events, got>>
    /\ UNCHANGED <<jobVars, modelVars, featVars, callVars>>

\* a client streams buffer_seconds of signal in chunks of one second of
\* float samples
PushSecond ==
    /\ sent.chunks < BufferSeconds
    /\ rqueue' = Append(rqueue, Chunk("float64", sent.samples + 1, sent.samples + sfreq))
    /\ sent' = [chunks |-> sent.chunks + 1, samples |-> sent.samples + sfreq]
    /\ UNCHANGED <<sfreq, rbuf, rt, appended, events, got>>
    /\ UNCHANGED <<jobVars, modelVars, featVars, callVars>>

FirstIdleRt ==
    IF \E w \in RtWorkers : rt[w].pc = "idle"
    THEN CHOOSE w \in RtWorkers : rt[w].pc = "idle" /\ \A v \in 1..(w - 1) : rt[v].pc # "idle"
    ELSE 0

\* process_realtime_chunk starts; append reads the key and concatenates
AppendGet(w) ==
    /\ w = FirstIdleRt
    /\ rqueue # <<>>
    /\ rt' = [rt EXCEPT ![w] = [pc |-> "set", status |-> NULL, chunk |-> Head(rqueue),
                                combined |-> Combined(rbuf, Head(rqueue), BufferSize(sfreq))]]
    /\ rqueue' = Tail(rqueue)
    /\ UNCHANGED <<sfreq, rbuf, sent, appended, events, got>>
    /\ UNCHANGED <<jobVars, modelVars, featVars, callVars>>

\* append stores the concatenation back under the key
AppendSet(w) ==
    /\ rt[w].pc = "set"
    /\ rbuf' = ToBytes(rt[w].combined)
    /\ rt' = [rt EXCEPT ![w].pc = "read"]
    /\ appended' = Concatenate(appended, rt[w].chunk.runs)
    /\ UNCHANGED <<sfreq, rqueue, sent, events, got>>
    /\ UNCHANGED <<jobVars, modelVars, featVars, callVars>>

Event(name, recording_id) == [event |-> name, room |-> Room(recording_id)]

\* the room of a job
JobRoom(job_id) == <<"job_", job_id>>

\* what emit_job_progress publishes; no task and no request handler calls it
JobProgress(job_id, progress, status) ==
    [event |-> "job_progress", room |-> JobRoom(job_id), progress |-> progress,
     status |-> status]

\* the rest of process_realtime_chunk: the buffer is read again, filtered,
\* and the features of the last window are emitted
EmitFeatures(w) ==
    /\ rt[w].pc = "read"
    /\ LET buffer_data == GetDataOf(rbuf, NoDuration, sfreq) IN
       IF Buffering(buffer_data, sfreq)
       THEN /\ rt' = [rt EXCEPT ![w] = [RtIdle EXCEPT !.status = "buffering"]]
            /\ UNCHANGED events
       ELSE IF ~CanFilter(sfreq)
       THEN /\ rt' = [rt EXCEPT ![w] = [RtIdle EXCEPT !.status = "error"]]
            /\ UNCHANGED events
       ELSE /\ rt' = [rt EXCEPT ![w] = [RtIdle EXCEPT !.status = "processed"]]
            /\ events' = Append(events, Event("realtime_features", RecordingId))
    /\ UNCHANGED <<sfreq, rbuf, rqueue, sent, appended, got>>
    /\ UNCHANGED <<jobVars, modelVars, featVars, callVars>>

\* a call of RealtimeBuffer.get_data
GetData(ms) ==
    /\ got' = [ms |-> ms, result |-> GetDataOf(rbuf, ms, sfreq)]
    /\ UNCHANGED <<sfreq, rbuf, rqueue, rt, sent, appended, events>>
    /\ UNCHANGED <<jobVars, modelVars, featVars, callVars>>

RealtimeNext(workers) ==
    \/ \E s \in ChunkSeconds, d \in Dtypes : StreamData(s, d)
    \/ \E w \in workers : AppendGet(w)
    \/ \E w \in workers : AppendSet(w)
    \/ \E w \in workers : EmitFeatures(w)
    \/ \E ms \in DurationsMs \cup {NoDuration} : GetData(ms)

\* ------------------------------------------------------- feature engine
\* FeatureExtractor.extract_all_features.  The shape of the table depends on
\* the number of samples, the sample rate, the channel names, the band list
\* and the two epoching arguments, never on the signal values, so a
\* recording is those three attributes.  epoch_length is in seconds and
\* overlap in units of 1/OverlapSteps: values a float holds exactly, so
\* int() of the products is the integer quotient.
DefaultBands == <<"delta", "theta", "alpha", "beta", "gamma">>

DefaultEpochLength == 2

DefaultOverlap == OverlapSteps \div 2

EpochSfreqs == {2, 4}

EpochLengths == {1, DefaultEpochLength}

Overlaps == 0..OverlapSteps

ChannelLists == {<<"Fz">>, <<"Fz", "Pz">>}

BandLists == {DefaultBands, <<"alpha", "delta">>}

\* a column name: f'{prefix}{name}'
Column(prefix, name) == <<prefix, name>>

\* features.update(new) on the ordered keys of a dict
Update(keys, new) ==
    LET Absent(k) == \A i \in 1..Len(keys) : keys[i] # k
    IN  keys \o SelectSeq(new, Absent)

\* keys of the dict _compute_band_powers returns, in insertion order
BandPowerKeys(band_list) ==
    Update([i \in 1..Len(band_list) |-> Column("band_", band_list[i])],
           <<Column("", "total_power")>>)

\* keys of the dict _compute_relative_band_powers returns
RelativeBandPowerKeys(band_list, band_powers) ==
    LET Computed(name) ==
            \E i \in 1..Len(band_powers) : band_powers[i] = Column("band_", name)
        names == SelectSeq(band_list, Computed)
    IN  [i \in 1..Len(names) |-> Column("rel_", names[i])]

TimeFeatureKeys ==
    <<Column("", "mean"), Column("", "std"), Column("", "skewness"),
      Column("", "kurtosis"), Column("", "rms"), Column("", "peak_to_peak"),
      Column("", "zero_crossings")>>

HjorthKeys ==
    <<Column("", "hjorth_activity"), Column("", "hjorth_mobility"),
      Column("", "hjorth_complexity")>>

\* keys of the features dict of one (epoch, channel), in insertion order
FeatureKeys(band_list) ==
    LET k0 == <<Column("", "epoch_id"), Column("", "channel")>>
        band_powers == BandPowerKeys(band_list)
        k1 == Update(k0, band_powers)
        k2 == Update(k1, RelativeBandPowerKeys(band_list, band_powers))
        k3 == Update(k2, TimeFeatureKeys)
        k4 == Update(k3, HjorthKeys)
    IN  Update(k4, <<Column("", "sample_entropy")>>)

\* step = int(epoch_length * (1 - overlap) * sfreq)
Step(epoch_length, overlap, rate) ==
    (epoch_length * (OverlapSteps - overlap) * rate) \div OverlapSteps

\* epoch_samples = int(epoch_length * sfreq)
EpochSamples(epoch_length, rate) == epoch_length * rate

NEpochsWithoutLast(n_times, epoch_samples, step) ==
    (n_times - epoch_samples) \div step

\* n_epochs = (data.shape[1] - epoch_samples) // step + 1
NEpochs(n_times, epoch_samples, step) ==
    (n_times - epoch_samples) \div step + 1

\* the loop over range(n_epochs) from epoch_idx on: one dict per channel of
\* every epoch, the loop left at the first epoch that ends past the data
RECURSIVE EpochLoop(_, _, _, _, _, _)
EpochLoop(epoch_idx, n_epochs, step, epoch_samples, n_times, ch_names) ==
    IF epoch_idx >= n_epochs
    THEN <<>>
    ELSE LET start == epoch_idx * step
             stop == start + epoch_samples
         IN  IF stop > n_times
             THEN <<>>
             ELSE [c \in 1..Len(ch_names) |->
                      [epoch_id |-> epoch_idx, channel |-> ch_names[c],
                       samples |-> <<start, stop>>]]
                  \o EpochLoop(epoch_idx + 1, n_epochs, step, epoch_samples,
                               n_times, ch_names)

\* pd.DataFrame(all_features): the columns are the keys of the dicts, and
\* a frame built from an empty list has no column
DataFrame(all_features, keys) ==
    [state |-> "table",
     columns |-> IF Len(all_features) = 0 THEN <<>> ELSE keys,
     rows |-> all_features]

NoFrame(state) == [state |-> state, columns |-> <<>>, rows |-> <<>>]

ExtractAllFeatures(recording, band_list, epoch_length, overlap) ==
    LET step == Step(epoch_length, overlap, recording.sfreq)
        epoch_samples == EpochSamples(epoch_length, recording.sfreq)
    IN  IF step = 0
        THEN NoFrame("ZeroDivisionError")
        ELSE DataFrame(EpochLoop(0, NEpochs(recording.n_times, epoch_samples, step),
                                 step, epoch_samples, recording.n_times,
                                 recording.ch_names),
                       FeatureKeys(band_list))

InitExtractor(n_times, rate, ch_names, band_list, epoch_length, overlap) ==
    /\ raw = [n_times |-> n_times, sfreq |-> rate, ch_names |-> ch_names]
    /\ bands = band_list
    /\ epoching = [epoch_length |-> epoch_length, overlap |-> overlap]
    /\ features_df = NoFrame("pending")

\* extract_all_features(raw) as the feature task calls it
DefaultExtractor ==
    InitExtractor(MaxSamples, 2, <<"Fz">>, DefaultBands, DefaultEpochLength,
                  DefaultOverlap)

CallExtractor ==
    /\ features_df.state = "pending"
    /\ features_df' = ExtractAllFeatures(raw, bands, epoching.epoch_length,
                                         epoching.overlap)
    /\ UNCHANGED <<raw, bands, epoching>>
    /\ UNCHANGED <<jobVars, modelVars, rtVars, callVars>>

\* ---------------------------------------------------------- band powers
\* _compute_band_powers and _compute_relative_band_powers on the PSD that
\* signal.welch returned.  Frequencies are in half Hz, so that the grid of
\* the default window (0.5 Hz) is integral; a PSD is flat at base with one
\* more unit at one grid point (peak 0: at none).  Integrals are exact and
\* kept doubled, which leaves every quotient as it is.
Hz(f) == 2 * f

TotalLow == 1

TotalHigh == 45

Band(name, low, high) == [name |-> name, low |-> Hz(low), high |-> Hz(high)]

DefaultBandTable ==
    <<Band("delta", 1, 4), Band("theta", 4, 8), Band("alpha", 8, 12),
      Band("beta", 12, 30), Band("gamma", 30, 45)>>

\* the band lists a configuration may hold
BandConfigs ==
    {DefaultBandTable,
     <<Band("alpha", 8, 12)>>,
     <<Band("delta", 1, 4), Band("theta", 4, 8), Band("alpha", 8, 12),
       Band("beta", 12, 30), Band("gamma", 30, MaxHz)>>}

\* sfreq / nperseg of the Welch estimate: 0.5 Hz, 1 Hz, 3 Hz
GridSteps == {1, 2, 6}

Freqs(df) == [i \in 1..(Hz(MaxHz) \div df + 1) |-> (i - 1) * df]

Psd(df, base, peak) ==
    [i \in 1..(Hz(MaxHz) \div df + 1) |-> base + (IF i = peak THEN 1 ELSE 0)]

\* the selection with the upper edge left out
InBandHalfOpen(freqs, low, high) ==
    LET Selected(i) == freqs[i] >= low /\ freqs[i] < high
    IN  SelectSeq([i \in 1..Len(freqs) |-> i], Selected)

\* the indices np.logical_and(freqs >= low, freqs <= high) selects, in order
InBand(freqs, low, high) ==
    LET Selected(i) == freqs[i] >= low /\ freqs[i] <= high
    IN  SelectSeq([i \in 1..Len(freqs) |-> i], Selected)

\* np.trapz(y[idx], x[idx]), doubled
RECURSIVE Trapz(_, _, _)
Trapz(y, x, idx) ==
    IF Len(idx) < 2
    THEN 0
    ELSE (x[idx[2]] - x[idx[1]]) * (y[idx[1]] + y[idx[2]]) + Trapz(y, x, Tail(idx))

\* the values of the dict _compute_band_powers returns
BandPowers(band_list, freqs, psd) ==
    [bands |-> [i \in 1..Len(band_list) |->
                   Trapz(psd, freqs, InBand(freqs, band_list[i].low, band_list[i].high))],
     total_power |-> Trapz(psd, freqs, InBand(freqs, Hz(TotalLow), Hz(TotalHigh)))]

\* a / b on numpy floats: a division by zero is a warning and gives nan or inf
Divide(a, b) ==
    IF b # 0 THEN [kind |-> "finite", num |-> a, den |-> b]
    ELSE IF a = 0 THEN [kind |-> "nan", num |-> 0, den |-> 0]
    ELSE [kind |-> "inf", num |-> a, den |-> 0]

\* the values of the dict _compute_relative_band_powers returns; the
\* default of band_powers.get is never taken, total_power is always a key
RelativeBandPowers(band_powers) ==
    [i \in 1..Len(band_powers.bands) |->
        Divide(band_powers.bands[i], band_powers.total_power)]

BandPowerCall(band_list, df, base, peak) ==
    /\ call = [fn |-> "_compute_band_powers", bands |-> band_list,
               freqs |-> Freqs(df), psd |-> Psd(df, base, peak)]
    /\ ret = [pc |-> "band_powers"]

ComputeBandPowers ==
    /\ call.fn = "_compute_band_powers"
    /\ ret.pc = "band_powers"
    /\ ret' = [pc |-> "rel_powers",
               band_powers |-> BandPowers(call.bands, call.freqs, call.psd)]
    /\ UNCHANGED call
    /\ UNCHANGED <<jobVars, modelVars, rtVars, featVars>>

ComputeRelativeBandPowers ==
    /\ call.fn = "_compute_band_powers"
    /\ ret.pc = "rel_powers"
    /\ ret' = [pc |-> "returned", band_powers |-> ret.band_powers,
               rel_powers |-> RelativeBandPowers(ret.band_powers)]
    /\ UNCHANGED call
    /\ UNCHANGED <<jobVars, modelVars, rtVars, featVars>>

\* ----------------------------------------------------------- bad channels
\* PreprocessingPipeline.detect_bad_channels.  A channel is what the three
\* tests read of its samples: whether np.std is below flat_threshold, its
\* excess kurtosis (never below -2) and its variance, in whole units; the
\* name of the channel is its index.  raw.info['bads'] is a list.
HighVarianceZscore == 5

KurtosisThreshold == 10

\* the recordings have one, two or ManyChannels channels
ManyChannels == 30

Channel(eeg, flat, variance, kurt) ==
    [eeg |-> eeg, flat |-> flat, variance |-> variance, kurt |-> kurt]

Ordinary == Channel(TRUE, FALSE, 1, 0)

ChannelKinds ==
    {Ordinary,
     Channel(TRUE, TRUE, 0, 0), Channel(FALSE, TRUE, 0, 0),
     Channel(TRUE, FALSE, 1, KurtosisThreshold), Channel(TRUE, FALSE, 1, KurtosisThreshold + 1),
     Channel(TRUE, FALSE, 1, -2),
     Channel(TRUE, FALSE, 100, 0), Channel(TRUE, FALSE, 100, KurtosisThreshold + 1)}

\* channels 1 and 2 of any kind among ordinary channels
Montage(n, a, b) ==
    [i \in 1..n |-> IF i = 1 THEN a ELSE IF i = 2 THEN b ELSE Ordinary]

\* EegPicks that takes the channels of every type
EegPicksAnyType(channels) == [i \in 1..Len(channels) |-> i]

\* mne.pick_types(raw.info, eeg=True, exclude=[])
EegPicks(channels) ==
    SelectSeq([i \in 1..Len(channels) |-> i], LAMBDA i : channels[i].eeg)

RECURSIVE Sum(_)
Sum(seq) == IF seq = <<>> THEN 0 ELSE Head(seq) + Sum(Tail(seq))

\* abs(stats.zscore(v)[i]) > limit, for v the variances of the picks:
\* (v[i] - mean)^2 > limit^2 * var, both sides multiplied by n^2; with equal
\* variances the z-score is nan and the test is false
ZScoreAbove(v, i, limit) ==
    LET n == Len(v)
        deviation == n * v[i] - Sum(v)
        spread == n * Sum([k \in 1..n |-> v[k] * v[k]]) - Sum(v) * Sum(v)
    IN  deviation * deviation > limit * limit * spread

\* the first loop: flat channels and channels of high kurtosis
RECURSIVE FlatOrSpiky(_, _)
FlatOrSpiky(channels, picks) ==
    IF picks = <<>>
    THEN <<>>
    ELSE LET ch == channels[Head(picks)]
             rest == FlatOrSpiky(channels, Tail(picks))
         IN  IF ch.flat THEN <<Head(picks)>> \o rest
             ELSE IF ch.kurt > KurtosisThreshold THEN <<Head(picks)>> \o rest
             ELSE rest

Member(seq, x) == \E i \in 1..Len(seq) : seq[i] = x

\* the second loop, from the i-th pick on
RECURSIVE HighVariance(_, _, _, _)
HighVariance(bad_channels, picks, v, i) ==
    IF i > Len(picks)
    THEN bad_channels
    ELSE HighVariance(
             IF ZScoreAbove(v, i, HighVarianceZscore) /\ ~Member(bad_channels, picks[i])
             THEN Append(bad_channels, picks[i]) ELSE bad_channels,
             picks, v, i + 1)

\* list(set(names)): every name once, here in the order of first occurrence
RECURSIVE ListOfSet(_)
ListOfSet(names) ==
    IF names = <<>>
    THEN <<>>
    ELSE LET front == ListOfSet(SubSeq(names, 1, Len(names) - 1))
             last == names[Len(names)]
         IN  IF Member(front, last) THEN front ELSE Append(front, last)

DetectBadChannels(channels, bads) ==
    LET eeg_picks == EegPicks(channels)
        first == FlatOrSpiky(channels, eeg_picks)
        channel_vars == [k \in 1..Len(eeg_picks) |-> channels[eeg_picks[k]].variance]
        bad_channels == IF Len(eeg_picks) > 1
                        THEN HighVariance(first, eeg_picks, channel_vars, 1)
                        ELSE first
    IN  [pc |-> "returned", bad_channels |-> bad_channels,
         bads |-> ListOfSet(bads \o bad_channels)]

DetectCall(channels, bads) ==
    /\ call = [fn |-> "detect_bad_channels", channels |-> channels, bads |-> bads]
    /\ ret = [pc |-> "detect"]

DetectBad ==
    /\ call.fn = "detect_bad_channels"
    /\ ret.pc = "detect"
    /\ ret' = DetectBadChannels(call.channels, call.bads)
    /\ UNCHANGED call
    /\ UNCHANGED <<jobVars, modelVars, rtVars, featVars>>

\* ------------------------------------------------------------- storage
\* StorageService.  A call is the method with the answers the MinIO client
\* will give: an S3Error is one of the four kinds of failure, whatever its
\* code.  The frame is the position in the method, the client methods
\* invoked so far and the error raised to the caller.
ErrorKinds == {"NotFound", "Auth", "Transient", "Fatal"}

UploadOps == {"upload_file", "upload_bytes"}

StorageOps == UploadOps \cup {"download_file", "download_bytes", "delete_file"}

ClientMethod(fn) ==
    CASE fn = "upload_file"    -> "fput_object"
      [] fn = "upload_bytes"   -> "put_object"
      [] fn = "download_file"  -> "fget_object"
      [] fn = "download_bytes" -> "get_object"
      [] fn = "delete_file"    -> "remove_object"

\* the answers of bucket_exists and of make_bucket, which is called only
\* when the bucket does not exist
BucketAnswers ==
    {<<"true", "ok">>} \cup {<<"false", a>> : a \in {"ok"} \cup ErrorKinds}
    \cup {<<k, "ok">> : k \in ErrorKinds}

NoCall == call = [fn |-> "none"] /\ ret = [pc |-> "none"]

StorageCall(fn, bucket, object) ==
    /\ call = [fn |-> fn, bucket_exists |-> bucket[1], make_bucket |-> bucket[2],
               object |-> object]
    /\ ret = [pc |-> IF fn \in UploadOps THEN "ensure_bucket" ELSE "object",
              calls |-> <<>>, error |-> NULL]

Raised(calls, kind) == [pc |-> "raised", calls |-> calls, error |-> kind]

\* ensure_bucket: the S3Error of either client call is logged and raised
EnsureBucket ==
    /\ call.fn \in UploadOps
    /\ ret.pc = "ensure_bucket"
    /\ LET asked == Append(ret.calls, "bucket_exists")
           made == Append(asked, "make_bucket")
       IN  ret' = IF call.bucket_exists \in ErrorKinds
                  THEN Raised(asked, call.bucket_exists)
                  ELSE IF call.bucket_exists = "true"
                  THEN [ret EXCEPT !.pc = "object", !.calls = asked]
                  ELSE IF call.make_bucket \in ErrorKinds
                  THEN Raised(made, call.make_bucket)
                  ELSE [ret EXCEPT !.pc = "object", !.calls = made]
    /\ UNCHANGED call
    /\ UNCHANGED <<jobVars, modelVars, rtVars, featVars>>

\* the try block of upload_file, upload_bytes, download_file, download_bytes
\* and delete_file: one call of the client method, its S3Error logged and
\* raised again
ObjectCall ==
    /\ call.fn \in StorageOps
    /\ ret.pc = "object"
    /\ LET calls == Append(ret.calls, ClientMethod(call.fn))
       IN  ret' = IF call.object \in ErrorKinds
                  THEN Raised(calls, call.object)
                  ELSE [pc |-> "returned", calls |-> calls, error |-> NULL]
    /\ UNCHANGED call
    /\ UNCHANGED <<jobVars, modelVars, rtVars, featVars>>

\* ----------------------------------------------------------- inference
\* realtime_inference.  A call is the buffer process_realtime_chunk left in
\* Redis for the recording (the bytes of a float64 array of n_channels rows
\* and n_times columns, written at the rate of the stream), the MLModel row
\* of model_id, the configured band list and the answers of the object
\* store and of the loaded pipeline.
AssumedChannels == 64

InferenceWindowMs == 2000

StreamChannels == {1, 32, AssumedChannels}

StoredSeconds == {1, 2, 3, BufferSeconds}

\* an array over the stored bytes: element (r, c) is the float64 at flat
\* index r * row_len + first + c of the bytes
View(rows, cols, row_len, first) ==
    [error |-> NULL, rows |-> rows, cols |-> cols, row_len |-> row_len,
     first |-> first]

NoView == [error |-> NULL, rows |-> 0, cols |-> 0, row_len |-> 0, first |-> 0]

ValueError == [NoView EXCEPT !.error = "ValueError"]

\* combined.tobytes() of the (n_channels, n_times) array in C order
StoredBytes(n_channels, n_times) == [n_channels |-> n_channels, n_times |-> n_times]

\* the (channel, sample) process_realtime_chunk wrote at element (r, c)
At(view, stored, r, c) ==
    LET k == r * view.row_len + view.first + c
    IN  <<k \div stored.n_times, k % stored.n_times>>

\* np.frombuffer(data, dtype=np.float64).reshape(self.n_channels, -1)
GetBuffer(stored, n_channels) ==
    LET size == stored.n_channels * stored.n_times
    IN  IF size % n_channels # 0
        THEN ValueError
        ELSE View(n_channels, size \div n_channels, size \div n_channels, 0)

\* RealtimeBuffer.get_data of the buffer object realtime_inference builds
GetDataView(stored, n_channels, ms, rate) ==
    LET data == GetBuffer(stored, n_channels)
        n_samples == NSamples(ms, rate)
    IN  IF data.error # NULL THEN data
        ELSE IF data.cols > n_samples
        THEN [data EXCEPT !.cols = n_samples, !.first = data.cols - n_samples]
        ELSE data

\* keys of the dict extract_realtime_features returns, in insertion order
RealtimeFeatureKeys(band_list) ==
    LET k1 == Update(<<>>, [i \in 1..Len(band_list) |-> Column("", band_list[i])])
        k2 == Update(k1, [i \in 1..Len(band_list) |-> Column("rel_", band_list[i])])
    IN  Update(k2, <<Column("", "rms"), Column("", "std")>>)

\* feature_names of a trained model: the columns of the feature table
\* without epoch_id and channel
TrainedFeatureNames(band_list) ==
    SelectSeq(FeatureKeys(band_list),
              LAMBDA k : k \notin {Column("", "epoch_id"), Column("", "channel")})

HasKey(keys, f) == \E i \in 1..Len(keys) : keys[i] = f

\* features.get(f, 0): the value stored under f, or the default
FeaturesGet(keys, f) == [name |-> f, found |-> HasKey(keys, f)]

\* [features.get(f, 0) for f in (model.feature_names or list(features.keys()))]
FeatureVector(keys, feature_names) ==
    LET names == IF feature_names = <<>> THEN keys ELSE feature_names
    IN  [i \in 1..Len(names) |-> FeaturesGet(keys, names[i])]

NoModel == [found |-> FALSE, feature_names |-> <<>>]

MLModelRow(feature_names) == [found |-> TRUE, feature_names |-> feature_names]

Result(status, data, X) == [pc |-> "returned", status |-> status, data |-> data, X |-> X]

InferenceCall(stored, rate, model, band_list, download, predict) ==
    /\ call = [fn |-> "realtime_inference", stored |-> stored, rate |-> rate,
               model |-> model, bands |-> band_list, download |-> download,
               predict |-> predict]
    /\ ret = [pc |-> "called", status |-> NULL, data |-> NoView, X |-> <<>>]

\* the task body: every exception ends in {'status': 'error'}
RealtimeInference ==
    /\ call.fn = "realtime_inference"
    /\ ret.pc = "called"
    /\ LET config_sfreq == TargetSfreq
           data == GetDataView(call.stored, AssumedChannels, InferenceWindowMs, config_sfreq)
           X == FeatureVector(RealtimeFeatureKeys(call.bands), call.model.feature_names)
           predicted == call.download = "ok" /\ call.predict = "ok"
       IN  /\ ret' = IF ~call.model.found THEN Result("error", NoView, <<>>)
                     ELSE IF data.error # NULL THEN Result("error", data, <<>>)
                     ELSE IF data.cols < config_sfreq THEN Result("buffering", data, <<>>)
                     ELSE IF predicted THEN Result("success", data, X)
                     ELSE Result("error", data, X)
           /\ events' = IF call.model.found /\ data.error = NULL /\ data.cols >= config_sfreq
                           /\ predicted
                        THEN Append(events, Event("realtime_prediction", RecordingId))
                        ELSE events
    /\ UNCHANGED call
    /\ UNCHANGED <<jobVars, modelVars, featVars>>
    /\ UNCHANGED <<sfreq, rbuf, rqueue, rt, sent, appended, got>>

\* ---------------------------------------------------------------- spec
\* no kernel or service call is followed
Quiet == DefaultExtractor /\ NoCall

Init == InitJobs(TargetSfreq) /\ InitModels /\ InitStream(DefaultSfreq) /\ Quiet

WorkerNext ==
    \/ \E w \in Workers, j \in JobIds, again \in BOOLEAN : Deliver(w, j, again)
    \/ \E w \in Workers, j \in JobIds : Discard(w, j)
    \/ \E w \in Workers : Terminate(w)
    \/ \E w \in Workers : Claim(w)
    \/ \E w \in Workers : TempDirFails(w)
    \/ \E w \in Workers : Checkpoint(w)
    \/ \E w \in Workers : StoreMetadata(w)
    \/ \E w \in Workers, b \in BOOLEAN : FlagReview(w, b)
    \/ \E w \in Workers : UploadCleaned(w)
    \/ \E w \in Workers : Finish(w)
    \/ \E w \in Workers : Fail(w)
    \/ \E w \in Workers : FeatCheckpoint(w)
    \/ \E w \in Workers : FeatFinish(w)
    \/ \E w \in Workers : FeatFail(w)

\* the requests that make and cancel jobs, and the queue and workers behind them
ApiNext ==
    \/ StartPreprocessing
    \/ ExtractFeatures
    \/ \E j \in JobIds : CancelJob(j)
    \/ WorkerNext

Next ==
    \/ ApiNext
    \/ \E s \in RecordingStatuses : UpdateRecording(s)
    \/ \E w \in Workers : PreprocessBatch(w)

\* every operation of the API, the queue and the workers
Spec == Init /\ [][Next]_vars

\* the jobs made by start_preprocess and extract_features only: no PATCH of
\* the recording and no preprocess_batch task
SpecApi == Init /\ [][ApiNext]_vars

\* a raw file at any of the sample rates
InitDecode ==
    /\ \E r \in RawSfreqs : InitJobs(r)
    /\ InitModels /\ InitStream(DefaultSfreq) /\ Quiet

\* the jobs of SpecApi on a raw file of any sample rate
SpecDecode == InitDecode /\ [][ApiNext]_vars

DeleteNext ==
    \/ rec # NoRecording /\ ApiNext
    \/ DeleteRecording
    \/ \E w \in Workers : RowsGone(w)

\* the jobs of SpecApi on a recording that a request may delete; after the
\* deletion the runs in progress end and no request finds the recording
SpecDelete == Init /\ [][DeleteNext]_vars

\* the models API and the training task
SpecModels == Init /\ [][ModelNext]_vars

\* feature extraction on a recording whose status is set by PATCH, and
\* training; such a recording has no cleaned file, so its feature
\* extraction ends in the handler of the task
FailuresNext ==
    \/ ExtractFeatures
    \/ \E s \in RecordingStatuses : UpdateRecording(s)
    \/ \E w \in Workers, j \in JobIds, again \in BOOLEAN : Deliver(w, j, again)
    \/ \E w \in Workers : Claim(w)
    \/ \E w \in Workers : TempDirFails(w)
    \/ \E w \in Workers : FeatCheckpoint(w)
    \/ \E w \in Workers : FeatFail(w)
    \/ TrainingNext

\* the tasks that do not own a recording: feature extraction and training
SpecFailures == Init /\ [][FailuresNext]_vars

\* a stream at any of the sample rates
InitRealtime ==
    /\ InitJobs(TargetSfreq) /\ InitModels /\ Quiet
    /\ \E rate \in SampleRates : InitStream(rate)

RealtimeWorkersNext == RealtimeNext(RtWorkers)

SingleWriterNext == RealtimeNext({1})

\* the realtime queue drained by NumRtWorkers workers
SpecRealtime == InitRealtime /\ [][RealtimeWorkersNext]_vars

\* the realtime queue drained by one worker
SpecSingleWriter == InitRealtime /\ [][SingleWriterNext]_vars

PushNext ==
    \/ PushSecond
    \/ AppendGet(1)
    \/ AppendSet(1)
    \/ EmitFeatures(1)

\* buffer_seconds of signal at the default rate, streamed second by second
\* into an empty buffer and processed in order by one worker
SpecPush == Init /\ [][PushNext]_vars

\* a recording of any length, rate, channels and bands, any epoching
InitFeatures ==
    /\ InitJobs(TargetSfreq) /\ InitModels /\ InitStream(DefaultSfreq)
    /\ \E n_times \in 0..MaxSamples, rate \in EpochSfreqs, ch_names \in ChannelLists,
          band_list \in BandLists, epoch_length \in EpochLengths, overlap \in Overlaps :
            InitExtractor(n_times, rate, ch_names, band_list, epoch_length, overlap)
    /\ NoCall

FeaturesNext == CallExtractor

SpecFeatures == InitFeatures /\ [][FeaturesNext]_vars

\* the rest of the program at rest while one call is followed
AtRest ==
    InitJobs(TargetSfreq) /\ InitModels /\ InitStream(DefaultSfreq) /\ DefaultExtractor

\* any storage operation against any answers of the object store
InitStorage ==
    /\ AtRest
    /\ \E fn \in StorageOps, object \in {"ok"} \cup ErrorKinds :
          \E bucket \in IF fn \in UploadOps THEN BucketAnswers ELSE {<<"true", "ok">>} :
             StorageCall(fn, bucket, object)

StorageNext == EnsureBucket \/ ObjectCall

SpecStorage == InitStorage /\ [][StorageNext]_vars

\* any band list on any grid and any of the PSDs
InitBandPowers ==
    /\ AtRest
    /\ \E band_list \in BandConfigs, df \in GridSteps, base \in {0, 1} :
          \E peak \in 0..Len(Freqs(df)) :
             BandPowerCall(band_list, df, base, peak)

BandPowersNext == ComputeBandPowers \/ ComputeRelativeBandPowers

SpecBandPowers == InitBandPowers /\ [][BandPowersNext]_vars

\* a recording of one, two or many channels, channel 1 marked bad or not
InitDetect ==
    /\ AtRest
    /\ \E n \in {1, 2, ManyChannels}, a \in ChannelKinds, b \in ChannelKinds,
          bads \in {<<>>, <<1>>} :
             DetectCall(Montage(n, a, b), bads)

DetectNext == DetectBad

SpecDetect == InitDetect /\ [][DetectNext]_vars

\* any stored buffer, any model row and any answers of the store and pipeline
InferenceModels ==
    {NoModel, MLModelRow(<<>>)}
    \cup {MLModelRow(TrainedFeatureNames(band_list)) : band_list \in BandLists}

InitInference ==
    /\ AtRest
    /\ \E n_channels \in StreamChannels, rate \in SampleRates, s \in StoredSeconds,
          model \in InferenceModels, band_list \in BandLists,
          download \in {"ok", "NotFound"}, predict \in {"ok", "ValueError"} :
             InferenceCall(StoredBytes(n_channels, rate * s), rate, model, band_list,
                           download, predict)

InferenceNext == RealtimeInference

SpecInference == InitInference /\ [][InferenceNext]_vars

TypeOK ==
    /\ rec.status \in RecordingStatuses
    /\ rec.processed_path \in {NULL, CleanedPath}
    /\ rec.features_path \in {NULL, FeaturesPath}
    /\ Len(jobs) <= MaxJobs
    /\ \A j \in JobIds :
        /\ jobs[j].step \in Steps
        /\ jobs[j].status \in JobStatuses
        /\ jobs[j].progress \in 0..100
    /\ queue \subseteq JobIds
    /\ revoked \subseteq JobIds
\* ------------------------------------------------------------- helpers
Running(step) == {j \in JobIds : jobs[j].step = step /\ jobs[j].status = "running"}

\* no worker executes job j and no message of its task is left to deliver
RunEnded(j) == j \notin queue /\ \A w \in Workers : wk[w].job # j

\* the step is one of worker w on the job it executes
StepOf(w) == wk[w].pc # "idle" /\ wk'[w] # wk[w]

\* the status graph of a job; a pending job may also be cancelled (4.8)
JobTransitions ==
    {<<"pending", "running">>, <<"running", "completed">>, <<"running", "failed">>,
     <<"running", "cancelled">>, <<"pending", "cancelled">>}

\* the status graph of a recording (3)
RecordingTransitions ==
    {<<"uploaded", "processing">>, <<"processing", "processed">>,
     <<"processing", "failed">>, <<"processing", "needs_review">>}

\* -------------------------------------------------------------- claims
\* C1: in every reachable state at most one job per (recording, step) has
\* status running.
C1_AtMostOneRunning == \A step \in Steps : Cardinality(Running(step)) <= 1

\* C2: a task delivered for a job that is not pending leaves the job row and
\* the recording row unchanged; a pending job is moved to running with
\* started_at stamped.
C2_ClaimIdempotent ==
    [][\A w \in Workers :
         (wk[w].pc = "claim" /\ Claim(w)) =>
           IF jobs[wk[w].job].status = "pending"
           THEN /\ jobs'[wk[w].job].status = "running"
                /\ jobs'[wk[w].job].started_at # NULL
           ELSE jobs' = jobs /\ rec' = rec]_vars

\* C3: every change of a job's status is an edge of the job status graph, so
\* no step changes the status of a completed, failed or cancelled job.
C3_JobStatusGraph ==
    [][\A j \in JobIds :
         jobs'[j].status # jobs[j].status =>
           <<jobs[j].status, jobs'[j].status>> \in JobTransitions]_vars

\* C4: when the last request was a cancel accepted on a preprocessing job
\* whose progress was within [0.5, 0.7], then once the run of that job has
\* ended the job is cancelled and the recording is not processed.
C4_CancelMidRun ==
    (/\ resp.op = "cancel_job"
     /\ resp.code = 200
     /\ resp.progress \in 50..70
     /\ jobs[resp.id].step = "preprocessing"
     /\ RunEnded(resp.id))
    => (jobs[resp.id].status = "cancelled" /\ rec.status # "processed")

\* C5: a cancel request on a job in a terminal status is answered 400 and
\* leaves the job table and the recording row as they were.
C5_CancelTerminalNoOp ==
    [][\A j \in JobIds :
         (jobs[j].status \in Terminal /\ CancelJob(j)) =>
           (jobs' = jobs /\ rec' = rec /\ resp'.code = 400)]_vars

\* C5 witness: a cancel request was refused on a job in a terminal status.
C5_Witness ==
    /\ resp.op = "cancel_job"
    /\ resp.code = 400
    /\ jobs[resp.id].status \in Terminal

\* C6: for every job, finished_at is set if and only if the status is
\* completed, failed or cancelled.
C6_FinishedIffTerminal ==
    \A j \in JobIds : (jobs[j].finished_at # NULL) <=> (jobs[j].status \in Terminal)

\* C7: the progress of every job is within [0, 1], and a worker that has
\* written a progress value in its run never writes a smaller one later in
\* the same run, whether the run goes on to succeed or to fail.
C7_ProgressMonotone ==
    /\ [](\A j \in JobIds : jobs[j].progress \in 0..100)
    /\ [][\A w \in Workers :
            (/\ StepOf(w)
             /\ wk[w].written # -1
             /\ jobs'[wk[w].job].progress # jobs[wk[w].job].progress)
            => jobs'[wk[w].job].progress >= wk[w].written]_vars

\* C7 witness: a run wrote every checkpoint up to 0.9 and then failed.
C7_Witness ==
    \E j \in JobIds : jobs[j].status = "failed" /\ jobs[j].progress = 90

\* C8: every change of the recording's status is an edge of the recording
\* status graph, so processed, failed and needs_review are never left.
C8_RecordingStatusGraph ==
    [][rec'.status # rec.status =>
         <<rec.status, rec'.status>> \in RecordingTransitions]_vars

\* C9: in every committed state processed_path is set if and only if the
\* recording's status is processed or needs_review.
C9_CleanedPathIffProcessed ==
    (rec.processed_path # NULL) <=> (rec.status \in {"processed", "needs_review"})

\* C10: in every reachable state a set features_path implies a set
\* processed_path.
C10_FeaturesImplyCleaned == rec.features_path # NULL => rec.processed_path # NULL

\* C10 witness: a feature-extraction job completed and set features_path.
C10_Witness ==
    /\ rec.features_path # NULL
    /\ \E j \in JobIds : jobs[j].step = "feature_extraction" /\ jobs[j].status = "completed"

\* ------------------------------------------------- helpers for the models
\* both scores of a metrics map reach the promotion thresholds, a missing
\* score counting as 0
MeetsThresholds(metrics) ==
    /\ Get(metrics, "roc_auc", 0) >= RocAucThreshold
    /\ Get(metrics, "f1", 0) >= F1Threshold

\* the step is the commit of a promotion of c to production that is answered 200
PromotedToProduction(c) ==
    /\ PromoteCommit(c)
    /\ sess[c].new_stage = "production"
    /\ mresp'.code = 200

\* C11: in every reachable state at most one model has stage production.
C11_AtMostOneProduction == Cardinality(ProductionModels) <= 1

\* C12: a promotion to production goes on to its commit only if the metrics
\* of the model reach both thresholds (no metrics counting as 0), and a model
\* becomes production only in such a commit; a request on a model whose
\* metrics are below a threshold is answered 400 and changes no row.
C12_PromotionNeedsThresholds ==
    [][/\ \A c \in Clients :
            (sess[c].pc = "idle" /\ sess'[c].pc = "promote_commit"
                /\ sess'[c].new_stage = "production")
            => MeetsThresholds(models[sess'[c].model].metrics)
       /\ \A m \in DOMAIN models \cap DOMAIN models' :
            (models'[m].stage = "production" /\ models[m].stage # "production")
            => \E c \in Clients : PromotedToProduction(c) /\ sess[c].model = m
       /\ \A c \in Clients, m \in DOMAIN models, p \in CurrentProd :
            (PromoteModel(c, m, "production", p) /\ ~MeetsThresholds(models[m].metrics))
            => (mresp'.code = 400 /\ models' = models /\ sess' = sess)]_vars

\* a promotion to production was refused for a trained model while another
\* model is in production
C12_Witness ==
    /\ mresp = ModelResponse("promote_model", mresp.model, "production", 400)
    /\ mresp.model \in DOMAIN models
    /\ models[mresp.model].metrics # NoMetrics
    /\ ~MeetsThresholds(models[mresp.model].metrics)
    /\ ProductionModels # {}

\* C13: a promotion to production that is answered 200 leaves the model in
\* production and every other model that was in production before the
\* commit in candidate; a commit that fails changes no row.
C13_PromotionDemotes ==
    [][\A c \in Clients :
         /\ PromotedToProduction(c) =>
              /\ sess[c].model \in DOMAIN models'
              /\ models'[sess[c].model].stage = "production"
              /\ \A p \in DOMAIN models \ {sess[c].model} :
                    models[p].stage = "production" => models'[p].stage = "candidate"
         /\ (PromoteCommit(c) /\ mresp'.code = 500) => models' = models]_vars

\* C14 as stated: when a training run completes, the stage of its model is
\* candidate if and only if both scores reach their thresholds, and
\* development otherwise; the run never makes the stage production.
C14_CandidateIffThresholds ==
    [][\A roc_auc \in RocAucScores, f1 \in F1Scores :
         (TrainComplete(roc_auc, f1) /\ tw.model \in DOMAIN models) =>
           LET stage == models'[tw.model].stage
               passes == roc_auc >= RocAucThreshold /\ f1 >= F1Threshold
           IN /\ stage = "candidate" <=> passes
              /\ ~passes => stage = "development"]_vars

\* C14 amended: a training run that completes sets the stage to candidate
\* when both scores reach their thresholds, and leaves the stored stage as
\* it is otherwise, which is development as long as no promotion and no
\* other run of the task changed it; for a model still in development the
\* stage is candidate if and only if both thresholds are reached; no
\* training run makes the stage production.
C14_TrainingStage ==
    [][/\ \A roc_auc \in RocAucScores, f1 \in F1Scores :
            (TrainComplete(roc_auc, f1) /\ tw.model \in DOMAIN models) =>
              LET old == models[tw.model].stage
                  stage == models'[tw.model].stage
                  passes == roc_auc >= RocAucThreshold /\ f1 >= F1Threshold
              IN /\ passes => stage \in {"candidate", old}
                 /\ (passes /\ tw.loaded # "candidate") => stage = "candidate"
                 /\ ~passes => stage = old
                 /\ old = "development" => (stage = "candidate" <=> passes)
                 /\ old = "development" => (~passes => stage = "development")
       /\ \A m \in DOMAIN models \cap DOMAIN models' :
            (tw' # tw) => (models'[m].stage = "production" => models[m].stage = "production")]_vars

\* a trained model is candidate, another is trained and left in development
C14_Witness ==
    \E m, n \in DOMAIN models :
        /\ models[m].stage = "candidate" /\ MeetsThresholds(models[m].metrics)
        /\ models[n].stage = "development" /\ models[n].metrics # NoMetrics
        /\ ~MeetsThresholds(models[n].metrics)

\* C15: a step in which a preprocessing task ends by an exception raised
\* after its claim leaves the job failed with finished_at stamped, the error
\* message stored and an ERROR line last in the log, and the recording failed.
C15_ExceptionFailsJob ==
    [][\A w \in Workers :
         (wk[w].task = "preprocess" /\ (Fail(w) \/ TempDirFails(w))) =>
           /\ jobs'[wk[w].job].status = "failed"
           /\ jobs'[wk[w].job].finished_at # NULL
           /\ jobs'[wk[w].job].error # NULL
           /\ jobs'[wk[w].job].log = "ERROR"
           /\ rec'.status = "failed"]_vars

\* C16: no step of a feature-extraction task and no step of a training task
\* changes the status of the recording, so the status after a failed task is
\* the status other requests gave it.
C16_FailuresKeepRecording ==
    [][/\ \A w \in Workers : (wk[w].task = "features" /\ StepOf(w)) => rec'.status = rec.status
       /\ (tw' # tw) => rec'.status = rec.status]_vars

\* a feature-extraction job and a training run have failed and the
\* recording is still processed
C16_Witness ==
    /\ \E j \in JobIds : jobs[j].step = "feature_extraction" /\ jobs[j].status = "failed"
    /\ \E m \in DOMAIN models : models[m].stage = "failed"
    /\ rec.status = "processed"

\* ------------------------------------------------ helpers for the stream
RECURSIVE Ungarbled(_)
\* the sample numbers of an array, whatever its elements read as
Ungarbled(runs) ==
    IF runs = <<>> THEN <<>>
    ELSE Concatenate(Ungarbled(SubSeq(runs, 1, Len(runs) - 1)),
                     <<[runs[Len(runs)] EXCEPT !.garbled = FALSE]>>)

\* the samples under the ring-buffer key
BufferedSamples == IF rbuf = NoKey THEN 0 ELSE Length(FromBuffer(rbuf).runs)

FeaturesEvent == [event |-> "realtime_features", room |-> <<"recording_", RecordingId>>]

\* C17: with one writer the buffer holds at most sfreq * buffer_seconds
\* samples, and they are the last samples of the chunks appended so far, in
\* the order appended.
C17_BufferIsTail ==
    rbuf # NoKey =>
        /\ BufferedSamples <= sfreq * BufferSeconds
        /\ FromBuffer(rbuf).runs = Trailing(appended, sfreq * BufferSeconds)

\* C18: get_data(duration) returns the trailing int(duration * sfreq)
\* samples of the buffer, none for a count of 0 and all of them for a count
\* beyond the buffer, and None when the key is absent.
C18_GetLastIsTail ==
    [][\A ms \in DurationsMs :
         GetData(ms) =>
           got'.result = IF rbuf = NoKey THEN NoKey
                         ELSE [dtype |-> "float64",
                               runs |-> Trailing(FromBuffer(rbuf).runs, (ms * sfreq) \div 1000)]]_vars

\* C19: when no append is between its read and its write of the key, the
\* buffer holds the last samples of all chunks appended, whichever worker
\* appended them.
C19_NoChunkLost ==
    (rbuf # NoKey /\ \A w \in RtWorkers : rt[w].pc # "set") =>
        Ungarbled(FromBuffer(rbuf).runs) = Trailing(appended, sfreq * BufferSeconds)

\* C20 as stated: a chunk task that reads fewer than 2 * sfreq samples after
\* its append answers buffering and emits nothing; otherwise it emits one
\* realtime_features event to the room of the recording.
C20_EmitsWhenBuffered ==
    [][\A w \in RtWorkers :
         EmitFeatures(w) =>
           IF BufferedSamples < 2 * sfreq
           THEN rt'[w].status = "buffering" /\ events' = events
           ELSE events' = Append(events, FeaturesEvent)]_vars

\* C20 amended: a chunk task that reads fewer than 2 * sfreq samples after
\* its append answers buffering and emits nothing; otherwise, when the sample
\* rate is at least twice the notch frequency and above twice the upper
\* band edge, it emits one realtime_features event to the room of the
\* recording, and at a lower sample rate it answers error and emits nothing.
C20_EmitsWhenFilterable ==
    [][\A w \in RtWorkers :
         EmitFeatures(w) =>
           IF BufferedSamples < 2 * sfreq
           THEN rt'[w].status = "buffering" /\ events' = events
           ELSE IF sfreq >= 2 * NotchFreq /\ sfreq > 2 * BandpassHigh
           THEN rt'[w].status = "processed" /\ events' = Append(events, FeaturesEvent)
           ELSE rt'[w].status = "error" /\ events' = events]_vars

\* one chunk task answered buffering and another emitted the features
C20_Witness ==
    /\ events = <<FeaturesEvent>>
    /\ \E w, v \in RtWorkers : rt[w].status = "processed" /\ rt[v].status = "buffering"

\* ------------------------------------------- helpers for the checkpoints
\* the progress values of the named checkpoints of each task, in hundredths
CheckpointOrder(task) ==
    IF task = "preprocess" THEN <<10, 20, 30, 40, 50, 60, 70, 85, 90, 100>>
    ELSE <<20, 30, 50, 70, 85, 100>>

\* the step is a checkpoint write of worker w, the last one included
WritesCheckpoint(w) ==
    Checkpoint(w) \/ UploadCleaned(w) \/ Finish(w) \/ FeatCheckpoint(w) \/ FeatFinish(w)

\* how many checkpoints the run of worker w has written
CheckpointsWritten(w) ==
    IF wk[w].written = -1 THEN 0
    ELSE IndexOf(CheckpointOrder(wk[w].task), wk[w].written)

\* C25: the k-th checkpoint write of a run stores the k-th value of 0.1,
\* 0.2, 0.3, 0.4, 0.5, 0.6, 0.7, 0.85, 0.9, 1.0 (preprocessing) or of 0.2,
\* 0.3, 0.5, 0.7, 0.85, 1.0 (features) together with the log line of the
\* stage; a run completes with the last value, and no other step of a run
\* writes progress.
C25_CheckpointOrder ==
    [][\A w \in Workers :
         LET j == wk[w].job
             order == CheckpointOrder(wk[w].task)
             k == CheckpointsWritten(w) + 1
         IN /\ WritesCheckpoint(w) =>
                 /\ k <= Len(order)
                 /\ jobs'[j].progress = order[k]
                 /\ jobs'[j].log = LogLine(wk[w].pc)
                 /\ jobs'[j].log # NULL
            /\ (Finish(w) \/ FeatFinish(w)) =>
                 (k = Len(order) /\ jobs'[j].status = "completed")
            /\ (StepOf(w) /\ ~WritesCheckpoint(w)) => jobs'[j].progress = jobs[j].progress]_vars

\* a preprocessing run and a feature run have both completed at progress 1.0
C25_Witness ==
    /\ \E j \in JobIds : /\ jobs[j].step = "preprocessing"
                         /\ jobs[j].status = "completed" /\ jobs[j].progress = 100
    /\ \E j \in JobIds : /\ jobs[j].step = "feature_extraction"
                         /\ jobs[j].status = "completed" /\ jobs[j].progress = 100

\* the job_progress events published for job j, in emission order
JobEvents(j) == SelectSeq(events, LAMBDA e : e.event = "job_progress" /\ e.room = JobRoom(j))

\* C28: once a run that ended in an error is over, a job_progress event with
\* the failed status of its job has been published to room job_{id}, and the
\* progress values of the events of one job never decrease in emission order.
C28_TerminalEventPublished ==
    /\ \A j \in JobIds :
         (jobs[j].status = "failed" /\ jobs[j].error # NULL /\ RunEnded(j)) =>
            \E p \in 0..100 : JobProgress(j, p, "failed") \in {JobEvents(j)[i] : i \in DOMAIN JobEvents(j)}
    /\ \A j \in JobIds : \A i, k \in DOMAIN JobEvents(j) :
         i <= k => JobEvents(j)[i].progress <= JobEvents(j)[k].progress

\* C30: the row of the recording changes only in the request that hands it
\* to a preprocessing job, or in a step of a preprocessing run taken while
\* the status is processing.
C30_OnlyOwnerWritesRecording ==
    [][rec' # rec =>
         \/ StartPreprocessing
         \/ \E w \in Workers :
              wk[w].task = "preprocess" /\ StepOf(w) /\ rec.status = "processing"]_vars

\* the chunks whose task has ended
ChunksProcessed == sent.chunks - Len(rqueue) - Cardinality({w \in RtWorkers : rt[w].pc # "idle"})

\* all of the signal was streamed and every chunk task has ended
PushDone == sent.chunks = BufferSeconds /\ ChunksProcessed = BufferSeconds

FeaturesEvents == SelectSeq(events, LAMBDA e : e = FeaturesEvent)

\* C21 as stated: once the 30 chunks of one second are processed, at least
\* 30 realtime_features events were emitted for the recording.
C21_ThirtiethEvent == PushDone => Len(FeaturesEvents) >= BufferSeconds

\* C21 amended: the task of the first chunk answers buffering and emits
\* nothing, and every later chunk emits one event, so after k >= 1 chunks
\* k - 1 events were emitted and the 30 chunks produce 29 events, the last
\* of them for the 30th chunk.
C21_OneEventPerChunkAfterFirst ==
    /\ events = FeaturesEvents
    /\ Len(events) = IF ChunksProcessed = 0 THEN 0 ELSE ChunksProcessed - 1
    /\ PushDone => Len(events) = BufferSeconds - 1
    /\ \A w \in RtWorkers : rt[w].status = "buffering" => ChunksProcessed = 1

\* the 30 chunks are processed: the last task emitted the 29th event
C21_Witness ==
    /\ PushDone
    /\ rt[1].status = "processed"
    /\ Len(FeaturesEvents) = BufferSeconds - 1

\* the runs in progress that have made their temp directory
HoldsTempDir == {w \in Workers : wk[w].pc \notin {"idle", "claim", "download", "f_download"}}

C27_DecodedMetadataFixed ==
    [][/\ rec.sfreq # NullInt => rec'.sfreq = rec.sfreq
       /\ rec.channels # NullInt => rec'.channels = rec.channels]_vars

\* C29: a step that deletes the recording is taken only when none of its
\* jobs is pending or running.
C29_DeleteOnlyWithoutActiveJobs ==
    [][DeleteRecording => \A j \in JobIds : jobs[j].status \notin {"pending", "running"}]_vars

\* C26: a training run in which fewer than two recordings contribute ends
\* in the step that loads them, with the failed stage stored and neither a
\* fit nor an artifact; a request with an empty list of recording ids is
\* answered 400.
C26_AbortsBelowTwoRecordings ==
    [][/\ \A m \in DOMAIN models, again \in BOOLEAN, k \in IdCounts :
            (TrainStart(m, again, k) /\ k < MinRecordings) =>
                /\ tw'.pc = "idle"
                /\ models'[m].stage = "failed"
                /\ models'[m].s3_path = models[m].s3_path
       /\ \A others \in OtherRecordings :
            TrainModel(0, others) => (mresp'.code = 400 /\ models' = models)]_vars


\* ------------------------------------------- helpers for the feature table
\* the feature columns of a table: its columns but epoch_id and channel
FeatureColumns(frame) ==
    LET IsFeature(c) == c \notin {Column("", "epoch_id"), Column("", "channel")}
    IN  SelectSeq(frame.columns, IsFeature)

\* the order of the feature names for a band list
CanonicalOrder(band_list) ==
    [i \in 1..Len(band_list) |-> <<"band_", band_list[i]>>]
    \o [i \in 1..Len(band_list) |-> <<"rel_", band_list[i]>>]
    \o << <<"", "mean">>, <<"", "std">>, <<"", "skewness">>, <<"", "kurtosis">>,
          <<"", "rms">>, <<"", "peak_to_peak">>, <<"", "zero_crossings">>,
          <<"", "hjorth_activity">>, <<"", "hjorth_mobility">>,
          <<"", "hjorth_complexity">>, <<"", "sample_entropy">> >>

\* C23: for a recording of N samples, with L = int(epoch_length * sfreq) and
\* S = int(epoch_length * (1 - overlap) * sfreq), the table returned has
\* exactly E * channels rows, E = floor((N - L) / S) + 1 when N >= L and 0
\* when N < L; the rows are the channels of epoch 0, then of epoch 1, ...,
\* epoch k is computed from the samples [k*S, k*S + L), and every such
\* interval lies inside [0, N): no trailing partial epoch is emitted.
C23_EpochCount ==
    features_df.state = "table" =>
        LET N == raw.n_times
            L == epoching.epoch_length * raw.sfreq
            S == (epoching.epoch_length * (OverlapSteps - epoching.overlap)
                  * raw.sfreq) \div OverlapSteps
            C == Len(raw.ch_names)
            E == IF N >= L THEN (N - L) \div S + 1 ELSE 0
            rows == features_df.rows
        IN  /\ Len(rows) = E * C
            /\ \A k \in 0..(E - 1) : \A c \in 1..C :
                  /\ rows[k * C + c].epoch_id = k
                  /\ rows[k * C + c].channel = raw.ch_names[c]
                  /\ rows[k * C + c].samples = <<k * S, k * S + L>>
            /\ \A i \in 1..Len(rows) :
                  /\ rows[i].samples[1] >= 0
                  /\ rows[i].samples[2] <= N

\* three half-overlapping epochs of two channels, cut from a recording
\* whose last sample does not fill a fourth epoch
C23_Witness ==
    /\ features_df.state = "table"
    /\ Len(raw.ch_names) = 2
    /\ epoching.overlap = DefaultOverlap
    /\ epoching.epoch_length = DefaultEpochLength
    /\ raw.sfreq = 2
    /\ raw.n_times = 9
    /\ Len(features_df.rows) = 6
    /\ features_df.rows[6].samples = <<4, 8>>

\* C22: the feature columns of every table returned (a table of at least
\* one row: a frame without rows has no column) are band_<name> for each
\* configured band in band-list order, then rel_<name> in the same order,
\* then mean, std, skewness, kurtosis, rms, peak_to_peak, zero_crossings,
\* then the three hjorth columns, then sample_entropy, and no other feature
\* column in between.
C22_CanonicalColumnOrder ==
    (features_df.state = "table" /\ Len(features_df.rows) > 0) =>
        FeatureColumns(features_df) = CanonicalOrder(bands)


\* ------------------------------------------- helpers for start_preprocess
\* the preprocessing jobs without a terminal outcome so far: finished_at is
\* stored with every terminal status and no step clears it
OpenPreprocessing ==
    {j \in JobIds : jobs[j].step = "preprocessing" /\ jobs[j].finished_at = NULL}

\* C38: start_preprocess adds a pending preprocessing job and stores
\* 'processing' on the recording exactly when the recording's status is
\* uploaded, failed or needs_review; on any other status it answers 400 and
\* changes neither the jobs nor the recording.  As a consequence a request
\* is never accepted while an earlier preprocessing job of the recording has
\* not reached a terminal status: two requests without a terminal outcome in
\* between create one job.
C38_StartOnlyFromStartStatus ==
    [][StartPreprocessing =>
         IF rec.status \in {"uploaded", "failed", "needs_review"}
         THEN /\ Len(jobs') = Len(jobs) + 1
              /\ jobs'[Len(jobs')].step = "preprocessing"
              /\ jobs'[Len(jobs')].status = "pending"
              /\ rec'.status = "processing"
              /\ resp'.code = 202
              /\ OpenPreprocessing = {}
         ELSE /\ jobs' = jobs
              /\ rec' = rec
              /\ resp'.code = 400]_vars


\* C33: a run whose bad-channel fraction exceeded max_bad_channels_pct stores
\* 'needs_review' on the recording at the test and goes on; when it
\* completes, the job is 'completed' with progress 1.0 and the recording's
\* status is 'needs_review'; a run whose fraction did not exceed the limit
\* leaves the recording 'processed' when it completes.
C33_NeedsReviewKept ==
    [][\A w \in Workers :
         /\ FlagReview(w, TRUE) => rec'.status = "needs_review"
         /\ Finish(w) =>
               /\ jobs'[wk[w].job].status = "completed"
               /\ jobs'[wk[w].job].progress = 100
               /\ rec'.status = IF wk[w].bad_pct_high THEN "needs_review"
                                ELSE "processed"]_vars


\* C35: in every reachable state the stage of every model is development,
\* candidate or production, whatever train requests, training completions,
\* training failures and promote requests were made.
C35_StageInModelStages ==
    \A m \in DOMAIN models :
        models[m].stage \in {"development", "candidate", "production"}

\* C39: a delete_model request served on a model whose stage is 'production'
\* is answered 400 and changes no model row, and no deletion is left to
\* commit; a request served on a model in any other stage goes to its
\* commit, and the commit removes that model from the table and leaves the
\* other rows as they are.
C39_DeleteRejectsProduction ==
    [][\A c \in Clients :
         /\ \A m \in DOMAIN models :
              DeleteModel(c, m) =>
                 IF models[m].stage = "production"
                 THEN /\ mresp'.code = 400
                      /\ models' = models
                      /\ sess'[c].pc = "idle"
                 ELSE /\ sess'[c].pc = "delete_commit"
                      /\ sess'[c].model = m
         /\ DeleteCommit(c) =>
              /\ sess[c].model \notin DOMAIN models'
              /\ mresp'.code = 200
              /\ \A n \in DOMAIN models \ {sess[c].model} :
                    n \in DOMAIN models' /\ models'[n] = models[n]]_vars

\* a delete request was refused on a production model, which is still there
C39_Witness ==
    /\ mresp.op = "delete_model"
    /\ mresp.code = 400
    /\ mresp.model \in DOMAIN models
    /\ models[mresp.model].stage = "production"


\* ------------------------------------------------ helpers for the storage
\* how many times the client method of the operation itself was invoked
Attempts == Len(SelectSeq(ret.calls, LAMBDA m : m = ClientMethod(call.fn)))

\* C31: an object-store operation is attempted again only after a Transient
\* failure and at most 3 times in all: a failure reported to the caller is
\* a NotFound, Auth or Fatal failure of the first attempt, or the Transient
\* failure of the third, and an operation whose failure is Transient is not
\* given up before its third attempt.
C31_RetryOnlyTransient ==
    call.fn \in {"upload_file", "upload_bytes", "download_file", "download_bytes",
                 "delete_file"} =>
        /\ Attempts <= 3
        /\ (ret.pc = "raised" /\ Attempts > 0) =>
              \/ ret.error \in {"NotFound", "Auth", "Fatal"} /\ Attempts = 1
              \/ ret.error = "Transient" /\ Attempts = 3


\* ------------------------------------------- helpers for the band powers
RECURSIVE SumSeq(_)
SumSeq(seq) == IF seq = <<>> THEN 0 ELSE Head(seq) + SumSeq(Tail(seq))

Returned == call.fn = "_compute_band_powers" /\ ret.pc = "returned"

\* the relative powers are numbers and add up to 1: their common
\* denominator is total_power
RelSumIsOne ==
    /\ \A i \in 1..Len(ret.rel_powers) : ret.rel_powers[i].kind = "finite"
    /\ ret.band_powers.total_power # 0
    /\ SumSeq(ret.band_powers.bands) = ret.band_powers.total_power

OnGrid(f) == \E i \in 1..Len(call.freqs) : call.freqs[i] = f

\* the bands cover 1-45 Hz edge to edge, the inner edges on the grid
TilesTotalRange ==
    /\ call.bands # <<>>
    /\ call.bands[1].low = 2 * 1
    /\ call.bands[Len(call.bands)].high = 2 * 45
    /\ \A i \in 1..(Len(call.bands) - 1) :
          /\ call.bands[i].high = call.bands[i + 1].low
          /\ OnGrid(call.bands[i].high)

\* C32 as stated: for every band configuration and every PSD the relative
\* band powers rel_<band> = band_<band> / total_power of one (epoch,
\* channel) add up to 1.
C32_RelativeSumToOne == Returned => RelSumIsOne

\* C32: the relative band powers add up to 1 when the configured bands
\* cover 1-45 Hz edge to edge with their inner edges on the frequency grid
\* (as the default bands do on the grid of the default Welch window) and
\* the PSD is not zero all over 1-45 Hz.
C32_RelativeSumToOneWhenTiling ==
    (Returned /\ TilesTotalRange /\ ret.band_powers.total_power # 0) => RelSumIsOne

\* the default bands on the 0.5 Hz grid with a peak in the alpha band
C32_Witness ==
    /\ Returned
    /\ TilesTotalRange
    /\ Len(call.bands) = 5
    /\ call.freqs[2] = 1
    /\ ret.band_powers.bands[3] > ret.band_powers.bands[2]
    /\ ret.band_powers.total_power # 0
    /\ RelSumIsOne

\* C37: the relative band powers are guarded against a division by zero:
\* also when total_power is 0 every rel_<band> returned is a finite number.
C37_RelativeFinite ==
    Returned => \A i \in 1..Len(ret.rel_powers) : ret.rel_powers[i].kind = "finite"


\* --------------------------------------------- helpers for bad channels
Detected == call.fn = "detect_bad_channels" /\ ret.pc = "returned"

EegChannels == {i \in 1..Len(call.channels) : call.channels[i].eeg}

Magnitude(x) == IF x < 0 THEN -x ELSE x

\* |z-score| of the variance of channel i among the EEG channels above 5:
\* |v_i - mean| > 5 * sqrt(mean of squares - mean^2), in integers
VarianceOutlier(i) ==
    LET n == Cardinality(EegChannels)
        picked == SelectSeq([k \in 1..Len(call.channels) |-> k],
                            LAMBDA k : k \in EegChannels)
        total == SumSeq([k \in 1..n |-> call.channels[picked[k]].variance])
        squares == SumSeq([k \in 1..n |-> call.channels[picked[k]].variance
                                          * call.channels[picked[k]].variance])
        d == Magnitude(n * call.channels[i].variance - total)
    IN  d * d > 25 * (n * squares - total * total)

ShouldBeBad ==
    {i \in EegChannels :
        \/ call.channels[i].flat
        \/ Magnitude(call.channels[i].kurt) > 10
        \/ VarianceOutlier(i)}

Once(seq) == \A i, j \in 1..Len(seq) : seq[i] = seq[j] => i = j

VectorBuilt ==
    /\ call.fn = "realtime_inference"
    /\ ret.pc = "returned"
    /\ call.model.found
    /\ ret.data.error = NULL
    /\ ret.data.cols >= TargetSfreq

\* the names the vector is built over
VectorNames ==
    IF call.model.feature_names = <<>>
    THEN RealtimeFeatureKeys(call.bands)
    ELSE call.model.feature_names

\* the band-power and relative-power names of the feature engine
EngineBandNames ==
    {Column("band_", call.bands[i]) : i \in 1..Len(call.bands)}
    \cup {Column("rel_", call.bands[i]) : i \in 1..Len(call.bands)}

\* C36: the input vector of request_inference has one entry per name of the
\* model's feature-name list, in list order, each the value of that name in
\* the realtime feature dict or 0 when the name is missing, and the dict
\* carries the band-power and relative-power features under the names of
\* the feature engine, so that those names of a trained model are found.
C36_TrainedNamesFound ==
    VectorBuilt =>
        /\ Len(ret.X) = Len(VectorNames)
        /\ \A i \in 1..Len(ret.X) :
              /\ ret.X[i].name = VectorNames[i]
              /\ ret.X[i].found = HasKey(RealtimeFeatureKeys(call.bands), VectorNames[i])
              /\ VectorNames[i] \in EngineBandNames => ret.X[i].found

\* the array of the trailing 2 s of the stream's own buffer
StreamWindow ==
    LET n_samples == NSamples(InferenceWindowMs, call.rate)
        n_times == call.stored.n_times
        cols == IF n_times > n_samples THEN n_samples ELSE n_times
    IN  View(call.stored.n_channels, cols, n_times, n_times - cols)

SameLayout(a, b) ==
    /\ a.rows = b.rows
    /\ a.cols = b.cols
    /\ \A r \in 0..(a.rows - 1), c \in 0..(a.cols - 1) :
          At(a, call.stored, r, c) = At(b, call.stored, r, c)

\* C40: the data realtime_inference uses is the trailing 2 s of the buffer
\* process_realtime_chunk stored, channel by channel and sample by sample
\* as written, whatever the channel count and the sample rate of the stream.
C40_SameBufferContent ==
    VectorBuilt => SameLayout(ret.data, StreamWindow)
====
